---- MODULE Spec2Model ----
(***************************************************************************)
(* Model of the LP file reader (extern/filereaderlp/reader.cpp): the       *)
(* lexer, the classifier, the section splitter and the section processors  *)
(* that populate the Builder.                                              *)
(* Cursors are 0-based as in the source; At(v, k) is v[k].                 *)
(***************************************************************************)
EXTENDS Integers, Sequences, FiniteSets, TLC

VARIABLES pc, file, linebuffer, linebufferpos, rawtokens, processedtokens,
          sectiontokens, builder, i, con

lexvars == <<file, linebuffer, linebufferpos, rawtokens>>

vars ==
    <<pc, file, linebuffer, linebufferpos, rawtokens, processedtokens,
      sectiontokens, builder, i, con>>

(***************************************************************************)
(* double                                                                  *)
(***************************************************************************)
Fin(n) == [k |-> "fin", n |-> n]
PInf == [k |-> "inf", n |-> 1]
NInf == [k |-> "inf", n |-> -1]
NaN == [k |-> "nan", n |-> 0]

\* operator== of double: NaN is equal to nothing
DEq(a, b) == a.k # "nan" /\ b.k # "nan" /\ a = b

\* operator<= of double: false whenever an operand is NaN
DLeq(a, b) ==
    /\ a.k # "nan"
    /\ b.k # "nan"
    /\ \/ a = b
       \/ a = NInf
       \/ b = PInf
       \/ a.k = "fin" /\ b.k = "fin" /\ a.n <= b.n

(***************************************************************************)
(* processed tokens                                                        *)
(***************************************************************************)
ProcessedToken(t) ==
    [type |-> t, name |-> "", value |-> Fin(0), dir |-> "NONE",
     keyword |-> "NONE", objsense |-> "NONE", sostype |-> <<>>]

ProcessedTokenSectionKeyword(kw) ==
    [ProcessedToken("SECID") EXCEPT !.keyword = kw]

ProcessedTokenObjectiveSectionKeyword(os) ==
    [ProcessedToken("SECID") EXCEPT !.keyword = "OBJ", !.objsense = os]

ProcessedSOSTypeToken(t) == [ProcessedToken("SOSTYPE") EXCEPT !.sostype = t]

ProcessedConsIdToken(n) == [ProcessedToken("CONID") EXCEPT !.name = n]

ProcessedVarIdToken(n) == [ProcessedToken("VARID") EXCEPT !.name = n]

ProcessedConstantToken(v) == [ProcessedToken("CONST") EXCEPT !.value = v]

ProcessedComparisonToken(d) == [ProcessedToken("COMP") EXCEPT !.dir = d]

\* a unique_ptr that has been moved from
NullToken == ProcessedToken("NONE")

LpSectionKeyword ==
    {"NONE", "OBJ", "CON", "BOUNDS", "GEN", "BIN", "SEMI", "SOS", "END"}

At(v, k) == v[k + 1]

(***************************************************************************)
(* std::string: a sequence of characters, each a one-character string;     *)
(* "NUL" stands for the byte 0                                              *)
(***************************************************************************)
\* tolower in the "C" locale
tolower(c) ==
    CASE c = "A" -> "a" [] c = "B" -> "b" [] c = "C" -> "c" [] c = "D" -> "d"
      [] c = "E" -> "e" [] c = "F" -> "f" [] c = "G" -> "g" [] c = "H" -> "h"
      [] c = "I" -> "i" [] c = "J" -> "j" [] c = "K" -> "k" [] c = "L" -> "l"
      [] c = "M" -> "m" [] c = "N" -> "n" [] c = "O" -> "o" [] c = "P" -> "p"
      [] c = "Q" -> "q" [] c = "R" -> "r" [] c = "S" -> "s" [] c = "T" -> "t"
      [] c = "U" -> "u" [] c = "V" -> "v" [] c = "W" -> "w" [] c = "X" -> "x"
      [] c = "Y" -> "y" [] c = "Z" -> "z"
      [] OTHER -> c

isstrequalnocase(str1, str2) ==
    /\ Len(str2) = Len(str1)
    /\ \A k \in 1..Len(str1) : tolower(str1[k]) = tolower(str2[k])

iskeyword(str, keywords) == \E k \in keywords : isstrequalnocase(str, k)

\* the keyword tables of def.hpp
LP_KEYWORD_MIN ==
    {<<"m", "i", "n", "i", "m", "i", "z", "e">>,
     <<"m", "i", "n", "i", "m", "u", "m">>,
     <<"m", "i", "n">>}

LP_KEYWORD_MAX ==
    {<<"m", "a", "x", "i", "m", "i", "z", "e">>,
     <<"m", "a", "x", "i", "m", "u", "m">>,
     <<"m", "a", "x">>}

LP_KEYWORD_ST ==
    {<<"s", "u", "b", "j", "e", "c", "t", " ", "t", "o">>,
     <<"s", "u", "c", "h", " ", "t", "h", "a", "t">>,
     <<"s", "t">>,
     <<"s", ".", "t", ".">>}

LP_KEYWORD_BOUNDS ==
    {<<"b", "o", "u", "n", "d", "s">>,
     <<"b", "o", "u", "n", "d">>}

LP_KEYWORD_GEN ==
    {<<"g", "e", "n", "e", "r", "a", "l">>,
     <<"g", "e", "n", "e", "r", "a", "l", "s">>,
     <<"g", "e", "n">>}

LP_KEYWORD_BIN ==
    {<<"b", "i", "n", "a", "r", "y">>,
     <<"b", "i", "n", "a", "r", "i", "e", "s">>,
     <<"b", "i", "n">>}

LP_KEYWORD_SEMI ==
    {<<"s", "e", "m", "i", "-", "c", "o", "n", "t", "i", "n", "u", "o", "u", "s">>,
     <<"s", "e", "m", "i">>}

LP_KEYWORD_SOS == {<<"s", "o", "s">>}

LP_KEYWORD_END == {<<"e", "n", "d">>}

LP_KEYWORD_FREE == {<<"f", "r", "e", "e">>}

LP_KEYWORD_INF ==
    {<<"i", "n", "f", "i", "n", "i", "t", "y">>,
     <<"i", "n", "f">>}

\* the names of the identifiers of the inputs, as the strings the tokens and
\* the Builder hold
Spelling ==
    {<<"x", <<"x">>>>,
     <<"y", <<"y">>>>,
     <<"z", <<"z">>>>,
     <<"c1", <<"c", "1">>>>,
     <<"c2", <<"c", "2">>>>,
     <<"obj", <<"o", "b", "j">>>>,
     <<"o", <<"o">>>>,
     <<"g1", <<"g", "1">>>>,
     <<"q", <<"q">>>>,
     <<"c", <<"c">>>>,
     <<"S1", <<"S", "1">>>>,
     <<"S2", <<"S", "2">>>>,
     <<"s2", <<"s", "2">>>>,
     <<"S3", <<"S", "3">>>>,
     <<"inf", <<"i", "n", "f">>>>,
     <<"infinity", <<"i", "n", "f", "i", "n", "i", "t", "y">>>>,
     <<"Inf", <<"I", "n", "f">>>>,
     <<"nan", <<"n", "a", "n">>>>,
     <<"to", <<"t", "o">>>>,
     <<"that", <<"t", "h", "a", "t">>>>,
     <<"subject", <<"s", "u", "b", "j", "e", "c", "t">>>>,
     <<"such", <<"s", "u", "c", "h">>>>,
     <<"continuous", <<"c", "o", "n", "t", "i", "n", "u", "o", "u", "s">>>>,
     <<"semi", <<"s", "e", "m", "i">>>>,
     <<"cont", <<"c", "o", "n", "t">>>>,
     <<"a", <<"a">>>>}

Str(chars) == (CHOOSE p \in Spelling : p[2] = chars)[1]

(***************************************************************************)
(* raw tokens                                                              *)
(***************************************************************************)
RawToken(t) == [type |-> t, value |-> <<>>, cons |-> Fin(0)]

RawStringToken(v) == [RawToken("STR") EXCEPT !.value = v]

RawConstantToken(v) == [RawToken("CONS") EXCEPT !.cons = v]

(***************************************************************************)
(* Reader::tokenize and Reader::readnexttoken.  The file is the characters *)
(* not yet read and the eofbit of the stream.                              *)
(***************************************************************************)
\* std::getline: the characters up to the next newline, which is consumed;
\* eofbit is set when the end of the file is reached instead
getline(f) ==
    LET nl == {k \in DOMAIN f.data : f.data[k] = "\n"}
    IN  IF nl = {}
        THEN [line |-> f.data, file |-> [data |-> <<>>, eof |-> TRUE]]
        ELSE LET k == CHOOSE m \in nl : \A n \in nl : m <= n
             IN  [line |-> SubSeq(f.data, 1, k - 1),
                  file |-> [data |-> SubSeq(f.data, k + 1, Len(f.data)),
                            eof |-> FALSE]]

IsDigit(c) == c \in {"0", "1", "2", "3", "4", "5", "6", "7", "8", "9"}

DigitValue(c) ==
    CASE c = "0" -> 0 [] c = "1" -> 1 [] c = "2" -> 2 [] c = "3" -> 3
      [] c = "4" -> 4 [] c = "5" -> 5 [] c = "6" -> 6 [] c = "7" -> 7
      [] c = "8" -> 8 [] c = "9" -> 9

\* the decimal digits of line from the 0-based position p on: how many there
\* are and their value
RECURSIVE DigitRun(_, _, _)
DigitRun(line, p, r) ==
    IF p < Len(line) /\ IsDigit(At(line, p))
    THEN DigitRun(line, p + 1,
                  [len |-> r.len + 1,
                   n |-> 10 * r.n + DigitValue(At(line, p))])
    ELSE r

\* line holds the word w at position p, in any case
HasWordAt(line, p, w) ==
    /\ p + Len(w) <= Len(line)
    /\ \A k \in 1..Len(w) : tolower(line[p + k]) = w[k]

\* strtod at position p: the number of characters of the longest prefix that
\* is a floating-point literal (0 when there is none) and its value.  The
\* literals of the inputs are decimal digits, "inf", "infinity" and "nan" in
\* any case; the inputs hold no sign, point, exponent or hexadecimal form at
\* a position where strtod is called.
strtod(line, p) ==
    LET d == DigitRun(line, p, [len |-> 0, n |-> 0])
    IN  IF d.len > 0 THEN [len |-> d.len, value |-> Fin(d.n)]
        ELSE IF HasWordAt(line, p, <<"i", "n", "f", "i", "n", "i", "t", "y">>)
        THEN [len |-> 8, value |-> PInf]
        ELSE IF HasWordAt(line, p, <<"i", "n", "f">>)
        THEN [len |-> 3, value |-> PInf]
        ELSE IF HasWordAt(line, p, <<"n", "a", "n">>)
        THEN [len |-> 3, value |-> NaN]
        ELSE [len |-> 0, value |-> Fin(0)]

\* the argument of find_first_of at line 1011
Delimiters ==
    {"\t", "\n", "\\", ":", "+", "<", ">", "^", "=", " ", "/", "-", "*"}

\* linebuffer.find_first_of(delimiters, p), the size of the line for npos
RECURSIVE find_first_of(_, _)
find_first_of(line, p) ==
    IF p < Len(line) /\ At(line, p) \notin Delimiters
    THEN find_first_of(line, p + 1)
    ELSE p

\* the raw token of a single character of the switch (lines 910-972)
SingleCharToken(c) ==
    CASE c = "[" -> "BRKOP" [] c = "]" -> "BRKCL" [] c = "<" -> "LESS"
      [] c = ">" -> "GREATER" [] c = "=" -> "EQUAL" [] c = ":" -> "COLON"
      [] c = "+" -> "PLUS" [] c = "^" -> "HAT" [] c = "/" -> "SLASH"
      [] c = "*" -> "ASTERISK" [] c = "-" -> "MINUS" [] OTHER -> "NONE"

\* the part of readnexttoken after the line buffer has been refilled (lines
\* 907-1020) on the reader state s; out is "return", "assert" for a failed
\* assert and "lpassert" for a failed lpassert
ScanToken(s) ==
    LET line == s.linebuffer
        p == s.linebufferpos
        nextchar == IF p < Len(line) THEN At(line, p) ELSE "NUL"
        push(t, n) == [s EXCEPT !.rawtokens = Append(@, t),
                                !.linebufferpos = @ + n]
        num == strtod(line, p)
        endpos == find_first_of(line, p)
    IN  IF nextchar = "\\" THEN [s EXCEPT !.linebufferpos = Len(line)]
        ELSE IF SingleCharToken(nextchar) # "NONE"
        THEN push(RawToken(SingleCharToken(nextchar)), 1)
        ELSE IF nextchar = " " \/ nextchar = "\t"
        THEN [s EXCEPT !.linebufferpos = @ + 1]
        ELSE IF nextchar = ";" \/ nextchar = "\n"
        THEN [s EXCEPT !.linebufferpos = Len(line)]
        ELSE IF nextchar = "NUL"
        THEN IF p = Len(line) THEN s ELSE [s EXCEPT !.out = "assert"]
        ELSE IF num.len > 0 THEN push(RawConstantToken(num.value), num.len)
        ELSE IF endpos > p
        THEN push(RawStringToken(SubSeq(line, p + 1, endpos)), endpos - p)
        ELSE [s EXCEPT !.out = "lpassert"]

\* one call of readnexttoken on the reader state s
readnexttoken(s) ==
    IF s.linebufferpos = Len(s.linebuffer)
    THEN IF s.file.eof
         THEN [s EXCEPT !.rawtokens = Append(@, RawToken("FLEND"))]
         ELSE LET g == getline(s.file)
                  n == Len(g.line)
                  line == IF n > 0 /\ g.line[n] = "\r"
                          THEN SubSeq(g.line, 1, n - 1)
                          ELSE g.line
              IN  ScanToken([s EXCEPT !.file = g.file,
                                      !.linebuffer = line,
                                      !.linebufferpos = 0])
    ELSE ScanToken(s)

(***************************************************************************)
(* Reader::processtokens                                                   *)
(***************************************************************************)
\* parseobjectivesectionkeyword that takes every objective keyword for a
\* minimize form
parseobjectivesectionkeyword_MinOnly(str) ==
    IF iskeyword(str, LP_KEYWORD_MIN) \/ iskeyword(str, LP_KEYWORD_MAX)
    THEN "MIN"
    ELSE "NONE"

parseobjectivesectionkeyword(str) ==
    IF iskeyword(str, LP_KEYWORD_MIN) THEN "MIN"
    ELSE IF iskeyword(str, LP_KEYWORD_MAX) THEN "MAX"
    ELSE "NONE"

parsesectionkeyword(str) ==
    IF parseobjectivesectionkeyword(str) # "NONE" THEN "OBJ"
    ELSE IF iskeyword(str, LP_KEYWORD_ST) THEN "CON"
    ELSE IF iskeyword(str, LP_KEYWORD_BOUNDS) THEN "BOUNDS"
    ELSE IF iskeyword(str, LP_KEYWORD_BIN) THEN "BIN"
    ELSE IF iskeyword(str, LP_KEYWORD_GEN) THEN "GEN"
    ELSE IF iskeyword(str, LP_KEYWORD_SEMI) THEN "SEMI"
    ELSE IF iskeyword(str, LP_KEYWORD_SOS) THEN "SOS"
    ELSE IF iskeyword(str, LP_KEYWORD_END) THEN "END"
    ELSE "NONE"

\* unary minus that leaves the sign
Neg_Identity(v) == v

\* unary minus of double
Neg(v) == IF v.k = "nan" THEN v ELSE [v EXCEPT !.n = -@]

\* one iteration of the loop of processtokens at the raw token k: the
\* processed tokens it pushes and the raw tokens it consumes (adv = 0 for the
\* lpassert(false) of line 874)
ClassifyAt(raw, k) ==
    LET n == Len(raw) - k
        ty(j) == At(raw, k + j).type
        str(j) == At(raw, k + j).value
        emit(t, adv) == [toks |-> <<t>>, adv |-> adv]
        long3 == str(0) \o <<"-">> \o str(2)
        long2 == str(0) \o <<" ">> \o str(1)
    IN  IF /\ n >= 3 /\ ty(0) = "STR" /\ ty(1) = "MINUS" /\ ty(2) = "STR"
           /\ parsesectionkeyword(long3) # "NONE"
        THEN emit(ProcessedTokenSectionKeyword(parsesectionkeyword(long3)), 3)
        ELSE IF /\ n >= 2 /\ ty(0) = "STR" /\ ty(1) = "STR"
                /\ parsesectionkeyword(long2) # "NONE"
        THEN emit(ProcessedTokenSectionKeyword(parsesectionkeyword(long2)), 2)
        ELSE IF ty(0) = "STR" /\ parsesectionkeyword(str(0)) # "NONE"
        THEN IF parsesectionkeyword(str(0)) = "OBJ"
             THEN emit(ProcessedTokenObjectiveSectionKeyword(
                           parseobjectivesectionkeyword(str(0))), 1)
             ELSE emit(ProcessedTokenSectionKeyword(
                           parsesectionkeyword(str(0))), 1)
        ELSE IF /\ n >= 3 /\ ty(0) = "STR" /\ ty(1) = "COLON"
                /\ ty(2) = "COLON"
        THEN emit(ProcessedSOSTypeToken(str(0)), 3)
        ELSE IF n >= 2 /\ ty(0) = "STR" /\ ty(1) = "COLON"
        THEN emit(ProcessedConsIdToken(Str(str(0))), 2)
        ELSE IF ty(0) = "STR" /\ iskeyword(str(0), LP_KEYWORD_FREE)
        THEN emit(ProcessedToken("FREE"), 1)
        ELSE IF ty(0) = "STR" /\ iskeyword(str(0), LP_KEYWORD_INF)
        THEN emit(ProcessedConstantToken(PInf), 1)
        ELSE IF ty(0) = "STR" THEN emit(ProcessedVarIdToken(Str(str(0))), 1)
        ELSE IF n >= 2 /\ ty(0) = "PLUS" /\ ty(1) = "CONS"
        THEN emit(ProcessedConstantToken(At(raw, k + 1).cons), 2)
        ELSE IF n >= 2 /\ ty(0) = "MINUS" /\ ty(1) = "CONS"
        THEN emit(ProcessedConstantToken(Neg(At(raw, k + 1).cons)), 2)
        ELSE IF n >= 2 /\ ty(0) = "PLUS" /\ ty(1) = "BRKOP"
        THEN emit(ProcessedToken("BRKOP"), 2)
        ELSE IF ty(0) = "PLUS" THEN emit(ProcessedConstantToken(Fin(1)), 1)
        ELSE IF ty(0) = "MINUS" THEN emit(ProcessedConstantToken(Fin(-1)), 1)
        ELSE IF ty(0) = "CONS"
        THEN emit(ProcessedConstantToken(At(raw, k).cons), 1)
        ELSE IF ty(0) \in {"BRKOP", "BRKCL", "SLASH", "ASTERISK", "HAT"}
        THEN emit(ProcessedToken(ty(0)), 1)
        ELSE IF n >= 2 /\ ty(0) = "LESS" /\ ty(1) = "EQUAL"
        THEN emit(ProcessedComparisonToken("LEQ"), 2)
        ELSE IF ty(0) = "LESS" THEN emit(ProcessedComparisonToken("L"), 1)
        ELSE IF n >= 2 /\ ty(0) = "GREATER" /\ ty(1) = "EQUAL"
        THEN emit(ProcessedComparisonToken("GEQ"), 2)
        ELSE IF ty(0) = "GREATER" THEN emit(ProcessedComparisonToken("G"), 1)
        ELSE IF ty(0) = "EQUAL" THEN emit(ProcessedComparisonToken("EQ"), 1)
        ELSE IF ty(0) = "FLEND" THEN [toks |-> <<>>, adv |-> 1]
        ELSE [toks |-> <<>>, adv |-> 0]

\* the loop of processtokens from the raw token k on, ptoks the processed
\* tokens pushed so far
RECURSIVE ClassifyLoop(_, _, _)
ClassifyLoop(raw, k, ptoks) ==
    IF ~(k < Len(raw)) THEN [ok |-> TRUE, ptoks |-> ptoks]
    ELSE LET r == ClassifyAt(raw, k)
         IN  IF r.adv = 0 THEN [ok |-> FALSE, ptoks |-> ptoks]
             ELSE ClassifyLoop(raw, k + r.adv, ptoks \o r.toks)

(***************************************************************************)
(* model and builder                                                       *)
(***************************************************************************)
Variable(n) ==
    [name |-> n, lowerbound |-> Fin(0), upperbound |-> PInf,
     type |-> "CONTINUOUS"]

Expression ==
    [name |-> "", linterms |-> <<>>, quadterms |-> <<>>, offset |-> Fin(0)]

Constraint == [expr |-> Expression, lowerbound |-> NInf, upperbound |-> PInf]

Model ==
    [sense |-> "MIN", objective |-> Expression, constraints |-> <<>>,
     soss |-> <<>>, variables |-> <<>>]

\* variables: the intern table, name -> position in model.variables
Builder == [variables |-> <<>>, model |-> Model]

HasVar(b, n) == \E k \in DOMAIN b.variables : b.variables[k] = n

VarIndex(b, n) == CHOOSE k \in DOMAIN b.variables : b.variables[k] = n

\* Builder::getvarbyname: the builder after the call
getvarbyname(b, n) ==
    IF HasVar(b, n)
    THEN b
    ELSE [b EXCEPT !.variables = Append(@, n),
                   !.model.variables = Append(@, Variable(n))]

\* the entity a term points to: a position in model.variables
VarRef(b, n) == VarIndex(getvarbyname(b, n), n)

(***************************************************************************)
(* Reader::parseexpression                                                 *)
(***************************************************************************)
TypeAt(tokens, k) == At(tokens, k).type

\* ((ProcessedConsIdToken*)tok)->name: the name of a CONID token; on any
\* other token the cast reads memory that holds no name, and u is what the
\* read produces
NameOf(tok, u) == IF tok.type = "CONID" THEN tok.name ELSE u

\* AddLinTerm keeping one term per variable
AddLinTerm_Dedup(s, coef, name, adv) ==
    IF HasVar(s.b, name)
       /\ \E n \in DOMAIN s.expr.linterms :
             s.expr.linterms[n].var = VarIndex(s.b, name)
    THEN [s EXCEPT !.i = @ + adv]
    ELSE [s EXCEPT !.expr.linterms =
                       Append(@, [coef |-> coef, var |-> VarRef(s.b, name)]),
                   !.b = getvarbyname(s.b, name),
                   !.i = @ + adv]

\* linterms.push_back of (coef, getvarbyname(name)), cursor advanced by adv
AddLinTerm(s, coef, name, adv) ==
    [s EXCEPT !.expr.linterms =
                  Append(@, [coef |-> coef, var |-> VarRef(s.b, name)]),
              !.b = getvarbyname(s.b, name),
              !.i = @ + adv]

\* quadterms.push_back of (coef, getvarbyname(n1), getvarbyname(n2))
AddQuadTerm(s, coef, n1, n2, adv) ==
    LET b1 == getvarbyname(s.b, n1)
        b2 == getvarbyname(b1, n2)
    IN  [s EXCEPT !.expr.quadterms =
                      Append(@, [coef |-> coef, var1 |-> VarIndex(b1, n1),
                                 var2 |-> VarIndex(b2, n2)]),
                  !.b = b2,
                  !.i = @ + adv]

Fail(s) == [s EXCEPT !.ok = FALSE]

\* ParseQuadTerms without the lpasserts on the exponent
RECURSIVE ParseQuadTerms_AnyExponent(_, _)
ParseQuadTerms_AnyExponent(tokens, s) ==
    LET n == Len(tokens)
        j == s.i
    IN  IF ~(j < n /\ TypeAt(tokens, j) # "BRKCL") THEN s
        ELSE IF /\ n - j >= 4
                /\ TypeAt(tokens, j) = "CONST"
                /\ TypeAt(tokens, j + 1) = "VARID"
                /\ TypeAt(tokens, j + 2) \in {"HAT", "ASTERISK"}
                /\ TypeAt(tokens, j + 3) =
                       (IF TypeAt(tokens, j + 2) = "HAT" THEN "CONST"
                        ELSE "VARID")
        THEN ParseQuadTerms_AnyExponent(tokens,
                 AddQuadTerm(s, At(tokens, j).value, At(tokens, j + 1).name,
                             IF TypeAt(tokens, j + 2) = "HAT"
                             THEN At(tokens, j + 1).name
                             ELSE At(tokens, j + 3).name, 4))
        ELSE IF /\ n - j >= 3
                /\ TypeAt(tokens, j) = "VARID"
                /\ TypeAt(tokens, j + 1) \in {"HAT", "ASTERISK"}
                /\ TypeAt(tokens, j + 2) =
                       (IF TypeAt(tokens, j + 1) = "HAT" THEN "CONST"
                        ELSE "VARID")
        THEN ParseQuadTerms_AnyExponent(tokens,
                 AddQuadTerm(s, Fin(1), At(tokens, j).name,
                             IF TypeAt(tokens, j + 1) = "HAT"
                             THEN At(tokens, j).name
                             ELSE At(tokens, j + 2).name, 3))
        ELSE s

\* the loop over the terms of a quadratic block (lines 316-393)
RECURSIVE ParseQuadTerms(_, _)
ParseQuadTerms(tokens, s) ==
    LET n == Len(tokens)
        j == s.i
    IN  IF ~(j < n /\ TypeAt(tokens, j) # "BRKCL") THEN s
        ELSE IF /\ n - j >= 4
                /\ TypeAt(tokens, j) = "CONST"
                /\ TypeAt(tokens, j + 1) = "VARID"
                /\ TypeAt(tokens, j + 2) = "HAT"
                /\ TypeAt(tokens, j + 3) = "CONST"
        THEN IF ~DEq(At(tokens, j + 3).value, Fin(2)) THEN Fail(s)
             ELSE ParseQuadTerms(tokens,
                      AddQuadTerm(s, At(tokens, j).value,
                                  At(tokens, j + 1).name,
                                  At(tokens, j + 1).name, 4))
        ELSE IF /\ n - j >= 3
                /\ TypeAt(tokens, j) = "VARID"
                /\ TypeAt(tokens, j + 1) = "HAT"
                /\ TypeAt(tokens, j + 2) = "CONST"
        THEN IF ~DEq(At(tokens, j + 2).value, Fin(2)) THEN Fail(s)
             ELSE ParseQuadTerms(tokens,
                      AddQuadTerm(s, Fin(1), At(tokens, j).name,
                                  At(tokens, j).name, 3))
        ELSE IF /\ n - j >= 4
                /\ TypeAt(tokens, j) = "CONST"
                /\ TypeAt(tokens, j + 1) = "VARID"
                /\ TypeAt(tokens, j + 2) = "ASTERISK"
                /\ TypeAt(tokens, j + 3) = "VARID"
        THEN ParseQuadTerms(tokens,
                 AddQuadTerm(s, At(tokens, j).value, At(tokens, j + 1).name,
                             At(tokens, j + 3).name, 4))
        ELSE IF /\ n - j >= 3
                /\ TypeAt(tokens, j) = "VARID"
                /\ TypeAt(tokens, j + 1) = "ASTERISK"
                /\ TypeAt(tokens, j + 2) = "VARID"
        THEN ParseQuadTerms(tokens,
                 AddQuadTerm(s, Fin(1), At(tokens, j).name,
                             At(tokens, j + 2).name, 3))
        ELSE s

\* CloseQuadBlock that asks for BRKCL SLASH CONST(2) in a constraint too
CloseQuadBlock_AlwaysHalved(tokens, s, isobj) ==
    LET n == Len(tokens)
        j == s.i
    IN  IF ~s.ok THEN s
        ELSE IF /\ n - j >= 3
                /\ TypeAt(tokens, j) = "BRKCL"
                /\ TypeAt(tokens, j + 1) = "SLASH"
                /\ TypeAt(tokens, j + 2) = "CONST"
                /\ DEq(At(tokens, j + 2).value, Fin(2))
        THEN [s EXCEPT !.i = @ + 3]
        ELSE Fail(s)

\* what follows the terms of a quadratic block (lines 394-407)
CloseQuadBlock(tokens, s, isobj) ==
    LET n == Len(tokens)
        j == s.i
    IN  IF ~s.ok THEN s
        ELSE IF isobj
        THEN IF /\ n - j >= 3
                /\ TypeAt(tokens, j) = "BRKCL"
                /\ TypeAt(tokens, j + 1) = "SLASH"
                /\ TypeAt(tokens, j + 2) = "CONST"
                /\ DEq(At(tokens, j + 2).value, Fin(2))
             THEN [s EXCEPT !.i = @ + 3]
             ELSE Fail(s)
        ELSE IF n - j >= 1 /\ TypeAt(tokens, j) = "BRKCL"
             THEN [s EXCEPT !.i = @ + 1]
             ELSE Fail(s)

\* the loop over the terms of an expression (lines 277-412)
RECURSIVE ParseTerms(_, _, _)
ParseTerms(tokens, s, isobj) ==
    LET n == Len(tokens)
        j == s.i
    IN  IF ~s.ok \/ ~(j < n) THEN s
        ELSE IF /\ n - j >= 2
                /\ TypeAt(tokens, j) = "CONST"
                /\ TypeAt(tokens, j + 1) = "VARID"
        THEN ParseTerms(tokens,
                 AddLinTerm(s, At(tokens, j).value, At(tokens, j + 1).name, 2),
                 isobj)
        ELSE IF n - j >= 1 /\ TypeAt(tokens, j) = "CONST"
        THEN ParseTerms(tokens,
                 [s EXCEPT !.expr.offset = At(tokens, j).value, !.i = @ + 1],
                 isobj)
        ELSE IF n - j >= 1 /\ TypeAt(tokens, j) = "VARID"
        THEN ParseTerms(tokens,
                 AddLinTerm(s, Fin(1), At(tokens, j).name, 1), isobj)
        ELSE IF n - j >= 2 /\ TypeAt(tokens, j) = "BRKOP"
        THEN ParseTerms(tokens,
                 CloseQuadBlock(tokens,
                     ParseQuadTerms(tokens, [s EXCEPT !.i = @ + 1]), isobj),
                 isobj)
        ELSE s

\* the optional leading label (lines 272-275); ub records a read of a name
\* from a token that is no CONID
ParseLabel(tokens, s, u) ==
    IF Len(tokens) - s.i >= 1 /\ TypeAt(tokens, 0) = "CONID"
    THEN [s EXCEPT !.expr.name = NameOf(At(tokens, s.i), u),
                   !.ub = TypeAt(tokens, s.i) # "CONID",
                   !.i = @ + 1]
    ELSE s

\* parseexpression(tokens, expr, i, isobj) on builder b: the expression, the
\* cursor and the builder after the call; ok is FALSE when an lpassert failed
parseexpression(tokens, expr, b, i0, isobj, u) ==
    ParseTerms(tokens,
        ParseLabel(tokens,
            [i |-> i0, expr |-> expr, b |-> b, ok |-> TRUE, ub |-> FALSE], u),
        isobj)

(***************************************************************************)
(* Reader::splittokens                                                     *)
(***************************************************************************)
NoSectionTokens == [kw \in LpSectionKeyword |-> <<>>]

\* SplitToken that takes the sections only in the order in which
\* processsections runs them
SplitToken_Ordered(s, k) ==
    LET tok == At(s.ptoks, k)
        Rank(kw) == CASE kw = "NONE" -> 0 [] kw = "OBJ" -> 1 [] kw = "CON" -> 2
                      [] kw = "BOUNDS" -> 3 [] kw = "GEN" -> 4
                      [] kw = "BIN" -> 5 [] kw = "SEMI" -> 6
                      [] kw = "SOS" -> 7 [] OTHER -> 8
    IN  IF tok.type = "SECID"
        THEN LET cur == tok.keyword
                 s1 == [s EXCEPT !.cur = cur]
                 s2 == IF cur # "OBJ" THEN s1
                       ELSE IF tok.objsense = "MIN"
                            THEN [s1 EXCEPT !.sense = "MIN"]
                       ELSE IF tok.objsense = "MAX"
                            THEN [s1 EXCEPT !.sense = "MAX"]
                       ELSE Fail(s1)
             IN  IF ~s2.ok THEN s2
                 ELSE IF s2.sect[cur] = <<>> /\ Rank(s.cur) <= Rank(cur) THEN s2
                 ELSE Fail(s2)
        ELSE [s EXCEPT !.sect[s.cur] = Append(@, tok),
                       !.ptoks[k + 1] = NullToken]

\* SplitToken putting the token at the front of the bucket
SplitToken_Prepend(s, k) ==
    LET tok == At(s.ptoks, k)
    IN  IF tok.type = "SECID"
        THEN LET cur == tok.keyword
                 s1 == [s EXCEPT !.cur = cur]
                 s2 == IF cur # "OBJ" THEN s1
                       ELSE IF tok.objsense = "MIN"
                            THEN [s1 EXCEPT !.sense = "MIN"]
                       ELSE IF tok.objsense = "MAX"
                            THEN [s1 EXCEPT !.sense = "MAX"]
                       ELSE Fail(s1)
             IN  IF ~s2.ok THEN s2
                 ELSE IF s2.sect[cur] = <<>> THEN s2
                 ELSE Fail(s2)
        ELSE [s EXCEPT !.sect[s.cur] = <<tok>> \o @,
                       !.ptoks[k + 1] = NullToken]

\* the loop body for processedtokens[k] (lines 653-673)
SplitToken(s, k) ==
    LET tok == At(s.ptoks, k)
    IN  IF tok.type = "SECID"
        THEN LET cur == tok.keyword
                 s1 == [s EXCEPT !.cur = cur]
                 s2 == IF cur # "OBJ" THEN s1
                       ELSE IF tok.objsense = "MIN"
                            THEN [s1 EXCEPT !.sense = "MIN"]
                       ELSE IF tok.objsense = "MAX"
                            THEN [s1 EXCEPT !.sense = "MAX"]
                       ELSE Fail(s1)
             IN  IF ~s2.ok THEN s2
                 ELSE IF s2.sect[cur] = <<>> THEN s2
                 ELSE Fail(s2)
        ELSE [s EXCEPT !.sect[s.cur] = Append(@, tok),
                       !.ptoks[k + 1] = NullToken]

RECURSIVE SplitLoop(_, _)
SplitLoop(s, k) ==
    IF ~s.ok \/ ~(k < Len(s.ptoks)) THEN s
    ELSE SplitLoop(SplitToken(s, k), k + 1)

SplitResult(ptoks, sect, sense) ==
    SplitLoop([ptoks |-> ptoks, sect |-> sect, sense |-> sense,
               cur |-> "NONE", ok |-> TRUE], 0)

(***************************************************************************)
(* Reader::processconsec, the part after parseexpression (lines 427-445)   *)
(***************************************************************************)
\* ConCompare with the two assignments of "<=" and ">=" exchanged
ConCompare_Exchanged(tokens, c, j) ==
    IF ~(Len(tokens) - j >= 2) THEN [ok |-> FALSE, con |-> c, i |-> j]
    ELSE IF TypeAt(tokens, j) # "COMP" THEN [ok |-> FALSE, con |-> c, i |-> j]
    ELSE IF TypeAt(tokens, j + 1) # "CONST"
    THEN [ok |-> FALSE, con |-> c, i |-> j]
    ELSE LET value == At(tokens, j + 1).value
             dir == At(tokens, j).dir
         IN  IF dir = "EQ"
             THEN [ok |-> TRUE, i |-> j + 2,
                   con |-> [c EXCEPT !.lowerbound = value,
                                     !.upperbound = value]]
             ELSE IF dir = "LEQ"
             THEN [ok |-> TRUE, i |-> j + 2,
                   con |-> [c EXCEPT !.lowerbound = value]]
             ELSE IF dir = "GEQ"
             THEN [ok |-> TRUE, i |-> j + 2,
                   con |-> [c EXCEPT !.upperbound = value]]
             ELSE [ok |-> FALSE, con |-> c, i |-> j]

\* ConCompare with "<" handled as "<=" and ">" as ">=" (no default case)
ConCompare_StrictAccepted(tokens, c, j) ==
    IF ~(Len(tokens) - j >= 2) THEN [ok |-> FALSE, con |-> c, i |-> j]
    ELSE IF TypeAt(tokens, j) # "COMP" THEN [ok |-> FALSE, con |-> c, i |-> j]
    ELSE IF TypeAt(tokens, j + 1) # "CONST"
    THEN [ok |-> FALSE, con |-> c, i |-> j]
    ELSE LET value == At(tokens, j + 1).value
             dir == At(tokens, j).dir
         IN  IF dir = "EQ"
             THEN [ok |-> TRUE, i |-> j + 2,
                   con |-> [c EXCEPT !.lowerbound = value,
                                     !.upperbound = value]]
             ELSE IF dir = "LEQ" \/ dir = "L"
             THEN [ok |-> TRUE, i |-> j + 2,
                   con |-> [c EXCEPT !.upperbound = value]]
             ELSE [ok |-> TRUE, i |-> j + 2,
                   con |-> [c EXCEPT !.lowerbound = value]]

ConCompare(tokens, c, j) ==
    IF ~(Len(tokens) - j >= 2) THEN [ok |-> FALSE, con |-> c, i |-> j]
    ELSE IF TypeAt(tokens, j) # "COMP" THEN [ok |-> FALSE, con |-> c, i |-> j]
    ELSE IF TypeAt(tokens, j + 1) # "CONST"
    THEN [ok |-> FALSE, con |-> c, i |-> j]
    ELSE LET value == At(tokens, j + 1).value
             dir == At(tokens, j).dir
         IN  IF dir = "EQ"
             THEN [ok |-> TRUE, i |-> j + 2,
                   con |-> [c EXCEPT !.lowerbound = value,
                                     !.upperbound = value]]
             ELSE IF dir = "LEQ"
             THEN [ok |-> TRUE, i |-> j + 2,
                   con |-> [c EXCEPT !.upperbound = value]]
             ELSE IF dir = "GEQ"
             THEN [ok |-> TRUE, i |-> j + 2,
                   con |-> [c EXCEPT !.lowerbound = value]]
             ELSE [ok |-> FALSE, con |-> c, i |-> j]

(***************************************************************************)
(* Reader::processboundssec, one iteration of its loop (lines 452-545)     *)
(***************************************************************************)
SetLower(b, n, v) ==
    LET b1 == getvarbyname(b, n)
    IN  [b1 EXCEPT !.model.variables[VarIndex(b1, n)].lowerbound = v]

SetUpper(b, n, v) ==
    LET b1 == getvarbyname(b, n)
    IN  [b1 EXCEPT !.model.variables[VarIndex(b1, n)].upperbound = v]

SetBoth(b, n, lb, ub) == SetUpper(SetLower(b, n, lb), n, ub)

\* ApplyConstCompVar with the meaning of VAR COMP CONST (no asymmetry)
ApplyConstCompVar_Symmetric(b, name, dir, value) ==
    IF dir = "L" \/ dir = "G" THEN [ok |-> FALSE, b |-> getvarbyname(b, name)]
    ELSE IF dir = "LEQ" THEN [ok |-> TRUE, b |-> SetUpper(b, name, value)]
    ELSE IF dir = "GEQ" THEN [ok |-> TRUE, b |-> SetLower(b, name, value)]
    ELSE IF dir = "EQ" THEN [ok |-> TRUE, b |-> SetBoth(b, name, value, value)]
    ELSE [ok |-> FALSE, b |-> getvarbyname(b, name)]

\* the switch of the form CONST COMP VAR (lines 497-511), after getvarbyname
ApplyConstCompVar(b, name, dir, value) ==
    IF dir = "L" \/ dir = "G" THEN [ok |-> FALSE, b |-> getvarbyname(b, name)]
    ELSE IF dir = "LEQ" THEN [ok |-> TRUE, b |-> SetLower(b, name, value)]
    ELSE IF dir = "GEQ" THEN [ok |-> TRUE, b |-> SetUpper(b, name, value)]
    ELSE IF dir = "EQ" THEN [ok |-> TRUE, b |-> SetBoth(b, name, value, value)]
    ELSE [ok |-> FALSE, b |-> getvarbyname(b, name)]

\* ApplyVarCompConst where a one-sided entry resets the other bound to its
\* default
ApplyVarCompConst_ResetsOther(b, name, dir, value) ==
    IF dir = "L" \/ dir = "G" THEN [ok |-> FALSE, b |-> getvarbyname(b, name)]
    ELSE IF dir = "LEQ"
    THEN [ok |-> TRUE, b |-> SetBoth(b, name, Fin(0), value)]
    ELSE IF dir = "GEQ"
    THEN [ok |-> TRUE, b |-> SetBoth(b, name, value, PInf)]
    ELSE IF dir = "EQ" THEN [ok |-> TRUE, b |-> SetBoth(b, name, value, value)]
    ELSE [ok |-> FALSE, b |-> getvarbyname(b, name)]

\* the switch of the form VAR COMP CONST (lines 526-540), after getvarbyname
ApplyVarCompConst(b, name, dir, value) ==
    IF dir = "L" \/ dir = "G" THEN [ok |-> FALSE, b |-> getvarbyname(b, name)]
    ELSE IF dir = "LEQ" THEN [ok |-> TRUE, b |-> SetUpper(b, name, value)]
    ELSE IF dir = "GEQ" THEN [ok |-> TRUE, b |-> SetLower(b, name, value)]
    ELSE IF dir = "EQ" THEN [ok |-> TRUE, b |-> SetBoth(b, name, value, value)]
    ELSE [ok |-> FALSE, b |-> getvarbyname(b, name)]

\* the form CONST COMP VAR COMP CONST (lines 471-483)
ApplyDoubleSided(b, name, dir1, dir2, lb, ub) ==
    IF dir1 = "LEQ" /\ dir2 = "LEQ"
    THEN [ok |-> TRUE, b |-> SetBoth(b, name, lb, ub)]
    ELSE [ok |-> FALSE, b |-> b]
\* BoundsEntry with the cursor left in place after "VARIABLE free"
BoundsEntry_FreeStuck(tokens, b, j) ==
    LET n == Len(tokens)
        step(r, adv) ==
            [ok |-> r.ok, b |-> r.b, i |-> IF r.ok THEN j + adv ELSE j]
    IN  IF /\ n - j >= 2
           /\ TypeAt(tokens, j) = "VARID"
           /\ TypeAt(tokens, j + 1) = "FREE"
        THEN step([ok |-> TRUE,
                   b |-> SetBoth(b, At(tokens, j).name, NInf, PInf)], 0)
        ELSE IF /\ n - j >= 5
                /\ TypeAt(tokens, j) = "CONST"
                /\ TypeAt(tokens, j + 1) = "COMP"
                /\ TypeAt(tokens, j + 2) = "VARID"
                /\ TypeAt(tokens, j + 3) = "COMP"
                /\ TypeAt(tokens, j + 4) = "CONST"
        THEN step(ApplyDoubleSided(b, At(tokens, j + 2).name,
                                   At(tokens, j + 1).dir, At(tokens, j + 3).dir,
                                   At(tokens, j).value, At(tokens, j + 4).value),
                  5)
        ELSE IF /\ n - j >= 3
                /\ TypeAt(tokens, j) = "CONST"
                /\ TypeAt(tokens, j + 1) = "COMP"
                /\ TypeAt(tokens, j + 2) = "VARID"
        THEN step(ApplyConstCompVar(b, At(tokens, j + 2).name,
                                    At(tokens, j + 1).dir, At(tokens, j).value),
                  3)
        ELSE IF /\ n - j >= 3
                /\ TypeAt(tokens, j) = "VARID"
                /\ TypeAt(tokens, j + 1) = "COMP"
                /\ TypeAt(tokens, j + 2) = "CONST"
        THEN step(ApplyVarCompConst(b, At(tokens, j).name,
                                    At(tokens, j + 1).dir,
                                    At(tokens, j + 2).value), 3)
        ELSE [ok |-> FALSE, b |-> b, i |-> j]

BoundsEntry(tokens, b, j) ==
    LET n == Len(tokens)
        step(r, adv) ==
            [ok |-> r.ok, b |-> r.b, i |-> IF r.ok THEN j + adv ELSE j]
    IN  IF /\ n - j >= 2
           /\ TypeAt(tokens, j) = "VARID"
           /\ TypeAt(tokens, j + 1) = "FREE"
        THEN step([ok |-> TRUE,
                   b |-> SetBoth(b, At(tokens, j).name, NInf, PInf)], 2)
        ELSE IF /\ n - j >= 5
                /\ TypeAt(tokens, j) = "CONST"
                /\ TypeAt(tokens, j + 1) = "COMP"
                /\ TypeAt(tokens, j + 2) = "VARID"
                /\ TypeAt(tokens, j + 3) = "COMP"
                /\ TypeAt(tokens, j + 4) = "CONST"
        THEN step(ApplyDoubleSided(b, At(tokens, j + 2).name,
                                   At(tokens, j + 1).dir, At(tokens, j + 3).dir,
                                   At(tokens, j).value, At(tokens, j + 4).value),
                  5)
        ELSE IF /\ n - j >= 3
                /\ TypeAt(tokens, j) = "CONST"
                /\ TypeAt(tokens, j + 1) = "COMP"
                /\ TypeAt(tokens, j + 2) = "VARID"
        THEN step(ApplyConstCompVar(b, At(tokens, j + 2).name,
                                    At(tokens, j + 1).dir, At(tokens, j).value),
                  3)
        ELSE IF /\ n - j >= 3
                /\ TypeAt(tokens, j) = "VARID"
                /\ TypeAt(tokens, j + 1) = "COMP"
                /\ TypeAt(tokens, j + 2) = "CONST"
        THEN step(ApplyVarCompConst(b, At(tokens, j).name,
                                    At(tokens, j + 1).dir,
                                    At(tokens, j + 2).value), 3)
        ELSE [ok |-> FALSE, b |-> b, i |-> j]

(***************************************************************************)
(* Reader::processgensec, processbinsec, processsemisec                    *)
(***************************************************************************)
SetType(b, n, t) ==
    [b EXCEPT !.model.variables[VarIndex(b, n)].type = t]

TypeOf(b, n) == b.model.variables[VarIndex(b, n)].type

\* the body of the loop of processgensec (lines 562-569)
GenToken(b, tok) ==
    LET b1 == getvarbyname(b, tok.name)
    IN  IF TypeOf(b1, tok.name) = "SEMICONTINUOUS"
        THEN SetType(b1, tok.name, "SEMIINTEGER")
        ELSE SetType(b1, tok.name, "GENERAL")

\* BinToken without the two assignments of the bounds
BinToken_TypeOnly(b, tok) ==
    LET b1 == getvarbyname(b, tok.name)
    IN  SetType(b1, tok.name, "BINARY")

\* the body of the loop of processbinsec (lines 551-556)
BinToken(b, tok) ==
    LET b1 == getvarbyname(b, tok.name)
    IN  SetBoth(SetType(b1, tok.name, "BINARY"), tok.name, Fin(0), Fin(1))

\* the body of the loop of processsemisec (lines 575-582)
SemiToken(b, tok) ==
    LET b1 == getvarbyname(b, tok.name)
    IN  IF TypeOf(b1, tok.name) = "GENERAL"
        THEN SetType(b1, tok.name, "SEMIINTEGER")
        ELSE SetType(b1, tok.name, "SEMICONTINUOUS")

RECURSIVE GenLoop(_, _, _)
GenLoop(tokens, s, k) ==
    IF ~(k < Len(tokens)) THEN s
    ELSE IF TypeAt(tokens, k) # "VARID" THEN Fail(s)
    ELSE GenLoop(tokens, [s EXCEPT !.b = GenToken(s.b, At(tokens, k))], k + 1)

RECURSIVE BinLoop(_, _, _)
BinLoop(tokens, s, k) ==
    IF ~(k < Len(tokens)) THEN s
    ELSE IF TypeAt(tokens, k) # "VARID" THEN Fail(s)
    ELSE BinLoop(tokens, [s EXCEPT !.b = BinToken(s.b, At(tokens, k))], k + 1)

RECURSIVE SemiLoop(_, _, _)
SemiLoop(tokens, s, k) ==
    IF ~(k < Len(tokens)) THEN s
    ELSE IF TypeAt(tokens, k) # "VARID" THEN Fail(s)
    ELSE SemiLoop(tokens, [s EXCEPT !.b = SemiToken(s.b, At(tokens, k))],
                  k + 1)

(***************************************************************************)
(* Reader::processsossec                                                   *)
(***************************************************************************)
\* the "var : weight" entries of one group (lines 609-627)
RECURSIVE SosEntries(_, _)
SosEntries(tokens, s) ==
    LET j == s.i
    IN  IF /\ j < Len(tokens)
           /\ Len(tokens) - j >= 2
           /\ TypeAt(tokens, j) = "CONID"
           /\ TypeAt(tokens, j + 1) = "CONST"
        THEN SosEntries(tokens,
                 [s EXCEPT !.sos.entries =
                               Append(@, [var |-> VarRef(s.b, At(tokens, j).name),
                                          weight |-> At(tokens, j + 1).value]),
                           !.b = getvarbyname(s.b, At(tokens, j).name),
                           !.i = @ + 2])
        ELSE s

\* sostype[1] - '0' for the two accepted digits
SosDigit(c) == IF c = "1" THEN 1 ELSE 2

\* SosGroup without the three checks of the type text (lines 602-604)
SosGroup_AnyType(tokens, s) ==
    LET j == s.i
    IN  IF TypeAt(tokens, j) # "CONID" THEN Fail(s)
        ELSE IF ~(j + 1 < Len(tokens)) THEN Fail(s)
        ELSE IF TypeAt(tokens, j + 1) # "SOSTYPE" THEN Fail(s)
        ELSE LET sostype == At(tokens, j + 1).sostype
                 r == SosEntries(tokens,
                          [s EXCEPT !.sos =
                                        [name |-> At(tokens, j).name,
                                         type |-> SosDigit(sostype[Len(sostype)]),
                                         entries |-> <<>>],
                                    !.i = j + 2])
             IN  [r EXCEPT !.b.model.soss = Append(@, r.sos)]

\* one group: name, type, entries (lines 590-629)
SosGroup(tokens, s) ==
    LET j == s.i
    IN  IF TypeAt(tokens, j) # "CONID" THEN Fail(s)
        ELSE IF ~(j + 1 < Len(tokens)) THEN Fail(s)
        ELSE IF TypeAt(tokens, j + 1) # "SOSTYPE" THEN Fail(s)
        ELSE LET sostype == At(tokens, j + 1).sostype
             IN  IF Len(sostype) # 2 THEN Fail(s)
                 ELSE IF ~(sostype[1] = "S" \/ sostype[1] = "s") THEN Fail(s)
                 ELSE IF ~(sostype[2] = "1" \/ sostype[2] = "2") THEN Fail(s)
                 ELSE LET r == SosEntries(tokens,
                                   [s EXCEPT !.sos = [name |-> At(tokens, j).name,
                                                      type |-> SosDigit(sostype[2]),
                                                      entries |-> <<>>],
                                             !.i = j + 2])
                      IN  [r EXCEPT !.b.model.soss = Append(@, r.sos)]

RECURSIVE SosLoop(_, _)
SosLoop(tokens, s) ==
    IF ~s.ok \/ ~(s.i < Len(tokens)) THEN s
    ELSE SosLoop(tokens, SosGroup(tokens, s))

(***************************************************************************)
(* Reader::read: splittokens, then processsections (lines 258-265, 637-647)*)
(* pc names the call that runs next; "done" is the return of               *)
(* builder.model, "error" the exception thrown by a failed lpassert.       *)
(***************************************************************************)
\* what a read of a name through a mis-cast token pointer may produce; a
\* VARID token has the layout of a CONID token
Crash == "<crash>"
UBReads(tok) ==
    {"", "<garbage>", Crash} \cup (IF tok.type = "VARID" THEN {tok.name} ELSE {})

\* one iteration of the loop of tokenize (lines 882-887): a call of
\* readnexttoken, then the test for FLEND.  A failed assert aborts the
\* process; where NDEBUG compiles the assert away the call returns.
tokenize ==
    /\ pc = "tokenize"
    /\ LET s == readnexttoken([file |-> file, linebuffer |-> linebuffer,
                               linebufferpos |-> linebufferpos,
                               rawtokens |-> rawtokens, out |-> "return"])
           n == Len(s.rawtokens)
       IN  \/ /\ s.out # "lpassert"
              /\ file' = s.file
              /\ linebuffer' = s.linebuffer
              /\ linebufferpos' = s.linebufferpos
              /\ rawtokens' = s.rawtokens
              /\ pc' = IF n >= 1 /\ s.rawtokens[n].type = "FLEND"
                       THEN "processtokens"
                       ELSE "tokenize"
           \/ /\ s.out = "assert"
              /\ pc' = "crash"
              /\ UNCHANGED lexvars
           \/ /\ s.out = "lpassert"
              /\ pc' = "error"
              /\ UNCHANGED lexvars
    /\ UNCHANGED <<processedtokens, sectiontokens, builder, i, con>>

processtokens ==
    /\ pc = "processtokens"
    /\ LET r == ClassifyLoop(rawtokens, 0, processedtokens)
       IN  /\ processedtokens' = r.ptoks
           /\ pc' = IF r.ok THEN "splittokens" ELSE "error"
    /\ UNCHANGED <<sectiontokens, builder, i, con>>
    /\ UNCHANGED lexvars

splittokens ==
    /\ pc = "splittokens"
    /\ LET r == SplitResult(processedtokens, sectiontokens, builder.model.sense)
       IN  /\ processedtokens' = r.ptoks
           /\ sectiontokens' = r.sect
           /\ builder' = [builder EXCEPT !.model.sense = r.sense]
           /\ pc' = IF r.ok THEN "none" ELSE "error"
    /\ UNCHANGED <<i, con>>
    /\ UNCHANGED lexvars

processnonesec ==
    /\ pc = "none"
    /\ pc' = IF sectiontokens["NONE"] = <<>> THEN "obj" ELSE "error"
    /\ UNCHANGED <<processedtokens, sectiontokens, builder, i, con>>
    /\ UNCHANGED lexvars

\* processobjsec without the lpassert on the index
processobjsec_Unchecked ==
    /\ pc = "obj"
    /\ LET tokens == sectiontokens["OBJ"]
           r == parseexpression(tokens, Expression, builder, 0, TRUE, "")
       IN  /\ builder' = [r.b EXCEPT !.model.objective = r.expr]
           /\ pc' = IF r.ok THEN "con" ELSE "error"
    /\ i' = 0
    /\ UNCHANGED <<processedtokens, sectiontokens, con>>
    /\ UNCHANGED lexvars

processobjsec ==
    /\ pc = "obj"
    /\ LET tokens == sectiontokens["OBJ"]
           r == parseexpression(tokens, Expression, builder, 0, TRUE, "")
       IN  /\ builder' = [r.b EXCEPT !.model.objective = r.expr]
           /\ pc' = IF r.ok /\ r.i = Len(tokens) THEN "con" ELSE "error"
    /\ i' = 0
    /\ UNCHANGED <<processedtokens, sectiontokens, con>>
    /\ UNCHANGED lexvars

\* processconsec up to the return of parseexpression (lines 424-426)
processconsec ==
    /\ pc = "con"
    /\ LET tokens == sectiontokens["CON"]
       IN  IF i < Len(tokens)
           THEN \E u \in UBReads(At(tokens, i)) :
                    LET r == parseexpression(tokens, Constraint.expr, builder,
                                             i, FALSE, u)
                    IN  IF r.ub /\ u = Crash
                        THEN /\ pc' = "crash"
                             /\ UNCHANGED <<builder, i, con>>
                        ELSE /\ pc' = IF r.ok THEN "con_compare" ELSE "error"
                             /\ con' = [Constraint EXCEPT !.expr = r.expr]
                             /\ builder' = r.b
                             /\ i' = r.i
           ELSE /\ pc' = "bounds"
                /\ i' = 0
                /\ UNCHANGED <<builder, con>>
    /\ UNCHANGED <<processedtokens, sectiontokens>>
    /\ UNCHANGED lexvars

\* processconsec from the lpasserts on the comparison to push_back
\* (lines 427-445)
processconsec_compare ==
    /\ pc = "con_compare"
    /\ LET r == ConCompare(sectiontokens["CON"], con, i)
       IN  /\ con' = r.con
           /\ i' = r.i
           /\ builder' = IF r.ok
                         THEN [builder EXCEPT
                                   !.model.constraints = Append(@, r.con)]
                         ELSE builder
           /\ pc' = IF r.ok THEN "con" ELSE "error"
    /\ UNCHANGED <<processedtokens, sectiontokens>>
    /\ UNCHANGED lexvars

\* one iteration of the loop of processboundssec, or its exit
processboundssec ==
    /\ pc = "bounds"
    /\ LET tokens == sectiontokens["BOUNDS"]
       IN  IF i < Len(tokens)
           THEN LET r == BoundsEntry(tokens, builder, i)
                IN  /\ builder' = r.b
                    /\ i' = r.i
                    /\ pc' = IF r.ok THEN "bounds" ELSE "error"
           ELSE /\ pc' = "gen"
                /\ UNCHANGED <<builder, i>>
    /\ UNCHANGED <<processedtokens, sectiontokens, con>>
    /\ UNCHANGED lexvars

processgensec ==
    /\ pc = "gen"
    /\ LET r == GenLoop(sectiontokens["GEN"], [b |-> builder, ok |-> TRUE], 0)
       IN  /\ builder' = r.b
           /\ pc' = IF r.ok THEN "bin" ELSE "error"
    /\ UNCHANGED <<processedtokens, sectiontokens, i, con>>
    /\ UNCHANGED lexvars

processbinsec ==
    /\ pc = "bin"
    /\ LET r == BinLoop(sectiontokens["BIN"], [b |-> builder, ok |-> TRUE], 0)
       IN  /\ builder' = r.b
           /\ pc' = IF r.ok THEN "semi" ELSE "error"
    /\ UNCHANGED <<processedtokens, sectiontokens, i, con>>
    /\ UNCHANGED lexvars

processsemisec ==
    /\ pc = "semi"
    /\ LET r == SemiLoop(sectiontokens["SEMI"], [b |-> builder, ok |-> TRUE], 0)
       IN  /\ builder' = r.b
           /\ pc' = IF r.ok THEN "sos" ELSE "error"
    /\ UNCHANGED <<processedtokens, sectiontokens, i, con>>
    /\ UNCHANGED lexvars

processsossec ==
    /\ pc = "sos"
    /\ LET r == SosLoop(sectiontokens["SOS"],
                        [b |-> builder, ok |-> TRUE, i |-> 0,
                         sos |-> [name |-> "", type |-> 0, entries |-> <<>>]])
       IN  /\ builder' = r.b
           /\ pc' = IF r.ok THEN "end" ELSE "error"
    /\ UNCHANGED <<processedtokens, sectiontokens, i, con>>
    /\ UNCHANGED lexvars

\* processendsec without its lpassert
processendsec_Unchecked ==
    /\ pc = "end"
    /\ pc' = "done"
    /\ UNCHANGED <<processedtokens, sectiontokens, builder, i, con>>
    /\ UNCHANGED lexvars

processendsec ==
    /\ pc = "end"
    /\ pc' = IF sectiontokens["END"] = <<>> THEN "done" ELSE "error"
    /\ UNCHANGED <<processedtokens, sectiontokens, builder, i, con>>
    /\ UNCHANGED lexvars

(***************************************************************************)
(* Reader::processsections as a function of the buckets: the outcomes of   *)
(* running the section processors on sect, starting from builder b         *)
(***************************************************************************)
\* the loop of processconsec from cursor s.i on: the builders it can end
\* with, one for each result of the reads through a mis-cast pointer
RECURSIVE ConLoop(_, _)
ConLoop(tokens, s) ==
    IF ~(s.i < Len(tokens)) THEN {[out |-> "ok", b |-> s.b]}
    ELSE UNION
         {LET r == parseexpression(tokens, Constraint.expr, s.b, s.i, FALSE, u)
              c == ConCompare(tokens, [Constraint EXCEPT !.expr = r.expr], r.i)
          IN  IF r.ub /\ u = Crash THEN {[out |-> "crash", b |-> s.b]}
              ELSE IF ~r.ok \/ ~c.ok THEN {[out |-> "error", b |-> r.b]}
              ELSE ConLoop(tokens,
                       [b |-> [r.b EXCEPT
                                   !.model.constraints = Append(@, c.con)],
                        i |-> c.i]) :
             u \in UBReads(At(tokens, s.i))}

\* the loop of processboundssec from cursor s.i on
RECURSIVE BoundsLoop(_, _)
BoundsLoop(tokens, s) ==
    IF ~s.ok \/ ~(s.i < Len(tokens)) THEN s
    ELSE LET r == BoundsEntry(tokens, s.b, s.i)
         IN  BoundsLoop(tokens, [b |-> r.b, i |-> r.i, ok |-> r.ok])

processsections(sect, b) ==
    LET Error == [out |-> "error"]
        obj == parseexpression(sect["OBJ"], Expression, b, 0, TRUE, "")
        After(c) ==
            LET bnd == BoundsLoop(sect["BOUNDS"],
                                  [b |-> c.b, i |-> 0, ok |-> TRUE])
                gen == GenLoop(sect["GEN"], [b |-> bnd.b, ok |-> TRUE], 0)
                bin == BinLoop(sect["BIN"], [b |-> gen.b, ok |-> TRUE], 0)
                semi == SemiLoop(sect["SEMI"], [b |-> bin.b, ok |-> TRUE], 0)
                sos == SosLoop(sect["SOS"],
                               [b |-> semi.b, ok |-> TRUE, i |-> 0,
                                sos |-> [name |-> "", type |-> 0,
                                         entries |-> <<>>]])
            IN  IF c.out # "ok" THEN [out |-> c.out]
                ELSE IF ~bnd.ok THEN Error
                ELSE IF ~gen.ok THEN Error
                ELSE IF ~bin.ok THEN Error
                ELSE IF ~semi.ok THEN Error
                ELSE IF ~sos.ok THEN Error
                ELSE IF sect["END"] # <<>> THEN Error
                ELSE [out |-> "done", model |-> sos.b.model]
    IN  IF sect["NONE"] # <<>> THEN {Error}
        ELSE IF ~(obj.ok /\ obj.i = Len(sect["OBJ"])) THEN {Error}
        ELSE {After(c) :
                 c \in ConLoop(sect["CON"],
                               [b |-> [obj.b EXCEPT
                                           !.model.objective = obj.expr],
                                i |-> 0])}

Next ==
    \/ tokenize
    \/ processtokens
    \/ splittokens
    \/ processnonesec
    \/ processobjsec
    \/ processconsec
    \/ processconsec_compare
    \/ processboundssec
    \/ processgensec
    \/ processbinsec
    \/ processsemisec
    \/ processsossec
    \/ processendsec

\* processtokens turns LESS EQUAL and GREATER EQUAL into one token each, so it
\* never emits a strict comparison directly followed by "="
Classifiable(ptoks) ==
    \A k \in 1..(Len(ptoks) - 1) :
        ~(/\ ptoks[k].type = "COMP"
          /\ ptoks[k].dir \in {"L", "G"}
          /\ ptoks[k + 1].type = "COMP"
          /\ ptoks[k + 1].dir = "EQ")

\* the Reader after construction, on a file of the characters text
InitFile(text) ==
    /\ pc = "tokenize"
    /\ file = [data |-> text, eof |-> FALSE]
    /\ linebuffer = <<>>
    /\ linebufferpos = 0
    /\ rawtokens = <<>>
    /\ processedtokens = <<>>
    /\ sectiontokens = NoSectionTokens
    /\ builder = Builder
    /\ i = 0
    /\ con = Constraint

\* the Reader after tokenize has produced the raw tokens raw
InitRaw(raw) ==
    /\ pc = "processtokens"
    /\ file = [data |-> <<>>, eof |-> TRUE]
    /\ linebuffer = <<>>
    /\ linebufferpos = 0
    /\ rawtokens = raw
    /\ processedtokens = <<>>
    /\ sectiontokens = NoSectionTokens
    /\ builder = Builder
    /\ i = 0
    /\ con = Constraint

\* the Reader after processtokens has classified the input ptoks; the raw
\* tokens, which nothing reads from here on, are left out
InitWith(ptoks) ==
    /\ Classifiable(ptoks)
    /\ pc = "splittokens"
    /\ file = [data |-> <<>>, eof |-> TRUE]
    /\ linebuffer = <<>>
    /\ linebufferpos = 0
    /\ rawtokens = <<>>
    /\ processedtokens = ptoks
    /\ sectiontokens = NoSectionTokens
    /\ builder = Builder
    /\ i = 0
    /\ con = Constraint

(***************************************************************************)
(* Inputs: processed-token vectors as processtokens emits them             *)
(***************************************************************************)
K(v) == ProcessedConstantToken(v)
V(n) == ProcessedVarIdToken(n)
Lbl(n) == ProcessedConsIdToken(n)
Cmp(d) == ProcessedComparisonToken(d)
Sec(kw) == ProcessedTokenSectionKeyword(kw)
Obj(os) == ProcessedTokenObjectiveSectionKeyword(os)
T(t) == ProcessedToken(t)

\* the concrete scenarios 1-5 of the specification
Scenarios ==
    { <<Obj("MIN"), Lbl("obj"), K(Fin(3)), V("x"), K(Fin(2)), V("y"),
        Sec("CON"), Lbl("c1"), V("x"), K(Fin(1)), V("y"), Cmp("LEQ"),
        K(Fin(10)),
        Sec("BOUNDS"), K(Fin(0)), Cmp("LEQ"), V("x"), Cmp("LEQ"), K(Fin(5)),
        V("y"), Cmp("GEQ"), K(Fin(-1)), Sec("END")>>,
      <<Obj("MAX"), Lbl("o"), T("BRKOP"), K(Fin(2)), V("x"), T("HAT"),
        K(Fin(2)), K(Fin(3)), V("x"), T("ASTERISK"), V("y"), T("BRKCL"),
        T("SLASH"), K(Fin(2)),
        Sec("CON"), V("x"), K(Fin(1)), V("y"), Cmp("EQ"), K(Fin(1)),
        Sec("END")>>,
      <<Obj("MIN"), Lbl("o"), V("x"),
        Sec("CON"), Lbl("q"), T("BRKOP"), V("x"), T("ASTERISK"), V("y"),
        T("BRKCL"), Cmp("LEQ"), K(Fin(4)), Sec("END")>>,
      <<Obj("MIN"), Lbl("o"), V("x"), K(Fin(1)), V("y"),
        Sec("CON"), Lbl("c"), V("x"), K(Fin(-1)), V("y"), Cmp("GEQ"),
        K(Fin(0)),
        Sec("BOUNDS"), V("x"), T("FREE"), V("y"), Cmp("EQ"), K(Fin(2)),
        Sec("GEN"), V("x"), Sec("END")>>,
      <<Obj("MIN"), Lbl("o"), V("x"),
        Sec("SOS"), Lbl("g1"), ProcessedSOSTypeToken(<<"S", "1">>),
        Lbl("x"), K(Fin(1)), Lbl("y"), K(Fin(2)), Sec("END")>> }

\* the files of the concrete scenarios 1-6 of the specification
FileScenarios ==
    \* min\n obj: 3 x + 2 y\n st\n c1: x + y <= 10\n bounds\n 0 <= x <= 5\n y >= -1\n end\n
    { <<"m", "i", "n", "\n", " ", "o", "b", "j", ":", " ", "3", " ", "x",
        " ", "+", " ", "2", " ", "y", "\n", " ", "s", "t", "\n", " ", "c",
        "1", ":", " ", "x", " ", "+", " ", "y", " ", "<", "=", " ", "1", "0",
        "\n", " ", "b", "o", "u", "n", "d", "s", "\n", " ", "0", " ", "<",
        "=", " ", "x", " ", "<", "=", " ", "5", "\n", " ", "y", " ", ">",
        "=", " ", "-", "1", "\n", " ", "e", "n", "d", "\n">>,
      \* max\n o: [ 2 x^2 + 3 x * y ] / 2\n st\n x + y = 1\n end\n
      <<"m", "a", "x", "\n", " ", "o", ":", " ", "[", " ", "2", " ", "x",
        "^", "2", " ", "+", " ", "3", " ", "x", " ", "*", " ", "y", " ", "]",
        " ", "/", " ", "2", "\n", " ", "s", "t", "\n", " ", "x", " ", "+",
        " ", "y", " ", "=", " ", "1", "\n", " ", "e", "n", "d", "\n">>,
      \* min\n o: x\n st\n q: [ x * y ] <= 4\n end\n
      <<"m", "i", "n", "\n", " ", "o", ":", " ", "x", "\n", " ", "s", "t",
        "\n", " ", "q", ":", " ", "[", " ", "x", " ", "*", " ", "y", " ",
        "]", " ", "<", "=", " ", "4", "\n", " ", "e", "n", "d", "\n">>,
      \* min\n o: x + y\n st\n c: x - y >= 0\n bounds\n x free\n y = 2\n general\n x\n end\n
      <<"m", "i", "n", "\n", " ", "o", ":", " ", "x", " ", "+", " ", "y",
        "\n", " ", "s", "t", "\n", " ", "c", ":", " ", "x", " ", "-", " ",
        "y", " ", ">", "=", " ", "0", "\n", " ", "b", "o", "u", "n", "d",
        "s", "\n", " ", "x", " ", "f", "r", "e", "e", "\n", " ", "y", " ",
        "=", " ", "2", "\n", " ", "g", "e", "n", "e", "r", "a", "l", "\n",
        " ", "x", "\n", " ", "e", "n", "d", "\n">>,
      \* min\n o: x\n sos\n g1: S1 :: x:1 y:2\n end\n
      <<"m", "i", "n", "\n", " ", "o", ":", " ", "x", "\n", " ", "s", "o",
        "s", "\n", " ", "g", "1", ":", " ", "S", "1", " ", ":", ":", " ",
        "x", ":", "1", " ", "y", ":", "2", "\n", " ", "e", "n", "d", "\n">>,
      \* min\n o: x\n st\n c: x < 3\n end\n
      <<"m", "i", "n", "\n", " ", "o", ":", " ", "x", "\n", " ", "s", "t",
        "\n", " ", "c", ":", " ", "x", " ", "<", " ", "3", "\n", " ", "e",
        "n", "d", "\n">> }

\* all concatenations of 1..n sequences of the set S
RECURSIVE Concats(_, _)
Concats(S, n) ==
    IF n = 0 THEN {}
    ELSE S \cup {a \o b : a \in Concats(S, n - 1), b \in S}

(***************************************************************************)
(* Constraints sections: up to MaxCons constraints, each an optional       *)
(* label, an expression and what stands for the comparison and the         *)
(* right-hand side (well-formed or not)                                    *)
(***************************************************************************)
MaxCons == 2

ConFronts ==
    {<<V("y")>>, <<Lbl("c1"), V("x")>>, <<Lbl("c2"), K(Fin(2)), V("y")>>}

ConTails ==
    {<<Cmp("LEQ"), K(Fin(1))>>, <<Cmp("LEQ"), K(NInf)>>,
     <<Cmp("GEQ"), K(Fin(1))>>, <<Cmp("GEQ"), K(PInf)>>,
     <<Cmp("EQ"), K(Fin(1))>>, <<Cmp("EQ"), K(NaN)>>,
     <<Cmp("L"), K(Fin(1))>>, <<Cmp("G"), K(Fin(1))>>,
     <<Cmp("LEQ")>>, <<K(Fin(1))>>, <<Cmp("GEQ"), V("x")>>}

ConInputs ==
    {<<Sec("CON")>> \o b :
        b \in Concats({f \o c : f \in ConFronts, c \in ConTails}, MaxCons)}

InitCon ==
    \/ \E ptoks \in ConInputs \cup Scenarios : InitWith(ptoks)
    \/ \E text \in FileScenarios : InitFile(text)

SpecCon == InitCon /\ [][Next]_vars

(***************************************************************************)
(* Bounds sections: up to MaxEntries entries, well-formed or not           *)
(***************************************************************************)
MaxEntries == 2

BoundsEntries ==
    {<<V(n), T("FREE")>> : n \in {"x", "y"}}
    \cup {<<K(Fin(0)), Cmp(d[1]), V("x"), Cmp(d[2]), K(Fin(5))>> :
              d \in {<<"LEQ", "LEQ">>, <<"LEQ", "L">>, <<"L", "LEQ">>,
                     <<"GEQ", "LEQ">>, <<"LEQ", "EQ">>}}
    \cup {<<K(Fin(2)), Cmp(d), V("x")>> : d \in {"LEQ", "GEQ", "EQ", "L", "G"}}
    \cup {<<V("x"), Cmp(d), K(Fin(5))>> : d \in {"LEQ", "GEQ", "EQ", "L", "G"}}
    \cup {<<K(NInf), Cmp("LEQ"), V("y")>>, <<V("y"), Cmp("GEQ"), K(Fin(-1))>>,
          <<V("y"), Cmp("LEQ"), K(PInf)>>}
    \cup {<<V("x")>>, <<T("FREE")>>, <<K(Fin(2)), V("x")>>}

BoundsInputs ==
    {<<Sec("BOUNDS")>> \o b : b \in Concats(BoundsEntries, MaxEntries)}

InitBounds ==
    \/ \E ptoks \in BoundsInputs \cup Scenarios : InitWith(ptoks)
    \/ \E text \in FileScenarios : InitFile(text)

SpecBounds == InitBounds /\ [][Next]_vars

(***************************************************************************)
(* Type sections: bounds, general, binary and semi sections in every       *)
(* order, each variable mentioned up to MaxMentions times per section      *)
(***************************************************************************)
MaxMentions == 2

RECURSIVE Repeat(_, _)
Repeat(tok, n) == IF n = 0 THEN <<>> ELSE <<tok>> \o Repeat(tok, n - 1)

Mentions == {Repeat(V("x"), n) : n \in 0..MaxMentions}

GenBuckets == Mentions \cup {<<V("y")>> \o m : m \in Mentions}

SemiBuckets == Mentions \cup {m \o <<V("y")>> : m \in Mentions}

BinBuckets == {<<>>, <<V("x")>>, <<V("y")>>, <<V("x"), V("y")>>}

TypeBoundsBuckets ==
    {<<>>, <<K(Fin(2)), Cmp("LEQ"), V("x"), Cmp("LEQ"), K(Fin(5))>>,
     <<V("y"), T("FREE"), V("x"), Cmp("GEQ"), K(Fin(-1))>>}

Orders ==
    {o \in [1..4 -> {"BOUNDS", "GEN", "BIN", "SEMI"}] :
        \A a, b \in 1..4 : a # b => o[a] # o[b]}

TypeInputs ==
    {LET sec(kw) == <<Sec(kw)>> \o
                    (IF kw = "BOUNDS" THEN bb
                     ELSE IF kw = "GEN" THEN g
                     ELSE IF kw = "BIN" THEN n
                     ELSE m)
     IN  sec(o[1]) \o sec(o[2]) \o sec(o[3]) \o sec(o[4]) :
         o \in Orders, bb \in TypeBoundsBuckets, g \in GenBuckets,
         n \in BinBuckets, m \in SemiBuckets}

InitTypes ==
    \/ \E ptoks \in TypeInputs \cup Scenarios : InitWith(ptoks)
    \/ \E text \in FileScenarios : InitFile(text)

SpecTypes == InitTypes /\ [][Next]_vars

(***************************************************************************)
(* Headers: every vector of up to MaxSplitTokens headers and identifiers   *)
(***************************************************************************)
MaxSplitTokens == 4

SplitAlphabet ==
    {<<Obj("MIN")>>, <<Obj("MAX")>>, <<Sec("GEN")>>, <<Sec("END")>>,
     <<V("x")>>, <<V("y")>>}

SplitInputs == {<<>>} \cup Concats(SplitAlphabet, MaxSplitTokens)

InitSplit ==
    \/ \E ptoks \in SplitInputs \cup Scenarios : InitWith(ptoks)
    \/ \E text \in FileScenarios : InitFile(text)

SpecSplit == InitSplit /\ [][Next]_vars

(***************************************************************************)
(* Whole files: one bucket per section, the same names in every section    *)
(***************************************************************************)
ObjBuckets ==
    {<<>>, <<Lbl("o"), V("x")>>, <<K(Fin(2)), V("y"), K(Fin(3))>>,
     <<T("BRKOP"), V("x"), T("ASTERISK"), V("z"), T("BRKCL"), T("SLASH"),
       K(Fin(2))>>}

ConBuckets ==
    {<<>>, <<V("x"), Cmp("LEQ"), K(Fin(1))>>,
     <<Lbl("c1"), V("x"), Cmp("LEQ"), K(Fin(1)), V("y"), Cmp("GEQ"),
       K(Fin(2))>>,
     <<T("BRKOP"), K(Fin(2)), V("y"), T("HAT"), K(Fin(2)), T("BRKCL"),
       Cmp("EQ"), K(Fin(1)), V("x"), Cmp("GEQ"), K(Fin(0))>>}

SosBuckets ==
    {<<>>,
     <<Lbl("g1"), ProcessedSOSTypeToken(<<"S", "1">>), Lbl("x"), K(Fin(1)),
       Lbl("w"), K(Fin(2))>>,
     <<Lbl("g2"), ProcessedSOSTypeToken(<<"s", "2">>)>>,
     <<Lbl("g3"), ProcessedSOSTypeToken(<<"S", "3">>), Lbl("x"), K(Fin(1))>>}

FileInputs ==
    {<<Obj("MIN")>> \o ob \o <<Sec("CON")>> \o cb \o <<Sec("BOUNDS")>> \o bb
        \o <<Sec("GEN")>> \o g \o <<Sec("BIN")>> \o n \o <<Sec("SEMI")>> \o m
        \o <<Sec("SOS")>> \o sb \o <<Sec("END")>> :
        ob \in ObjBuckets, cb \in ConBuckets, bb \in TypeBoundsBuckets,
        g \in {<<>>, <<V("x")>>, <<V("v")>>}, n \in {<<>>, <<V("y")>>},
        m \in {<<>>, <<V("x"), V("u")>>}, sb \in SosBuckets}

InitFiles ==
    \/ \E ptoks \in FileInputs \cup Scenarios : InitWith(ptoks)
    \/ \E text \in FileScenarios : InitFile(text)

SpecFiles == InitFiles /\ [][Next]_vars

(***************************************************************************)
(* Quadratic blocks in the objective and in a constraint: what stands     *)
(* before the block, its terms and what stands for its end, well-formed   *)
(* or not                                                                  *)
(***************************************************************************)
\* the third family has objectives that parseexpression cannot consume
\* whole, the empty objective, and terms over the same variable
QuadInputs ==
    LET QuadTerms ==
            {<<>>,
             <<V("x"), T("HAT"), K(Fin(2))>>,
             <<K(Fin(3)), V("x"), T("HAT"), K(Fin(2))>>,
             <<V("x"), T("ASTERISK"), V("y")>>,
             <<K(Fin(3)), V("x"), T("ASTERISK"), V("y")>>,
             <<V("x"), T("HAT"), K(Fin(3))>>,
             <<K(Fin(2)), V("x"), T("HAT"), K(Fin(3))>>,
             <<V("x"), T("HAT"), K(Fin(-2))>>,
             <<V("x"), T("HAT"), K(NaN)>>,
             <<V("x"), T("HAT")>>,
             <<V("x"), T("HAT"), K(Fin(2)), K(Fin(3)), V("y"), T("HAT"),
               K(Fin(1))>>,
             <<V("x"), T("HAT"), K(Fin(2)), V("y"), T("ASTERISK"), V("x")>>}
        QuadEnds ==
            {<<T("BRKCL"), T("SLASH"), K(Fin(2))>>,
             <<T("BRKCL")>>,
             <<T("BRKCL"), T("SLASH"), K(Fin(3))>>,
             <<T("BRKCL"), T("SLASH"), K(NaN)>>,
             <<T("BRKCL"), T("SLASH")>>,
             <<T("BRKCL"), T("SLASH"), V("x")>>,
             <<T("BRKCL"), K(Fin(2))>>,
             <<T("SLASH"), K(Fin(2))>>,
             <<T("BRKCL"), T("SLASH"), K(Fin(2)), K(Fin(3)), V("y")>>,
             <<>>}
        QuadFronts == {<<>>, <<V("y")>>, <<K(Fin(-1))>>}
        QuadExprs ==
            {f \o <<T("BRKOP")>> \o t \o e :
                f \in QuadFronts, t \in QuadTerms, e \in QuadEnds}
        Objectives ==
            {<<>>,
             <<V("x"), Cmp("LEQ"), K(Fin(1))>>,
             <<Lbl("o"), V("x"), Lbl("p"), V("y")>>,
             <<V("x"), T("FREE")>>,
             <<V("x"), T("BRKCL")>>,
             <<T("BRKCL")>>,
             <<T("BRKOP")>>,
             <<V("x"), T("HAT"), K(Fin(2))>>,
             <<V("x"), V("x")>>,
             <<K(Fin(1)), K(Fin(2))>>,
             <<K(Fin(2)), V("x"), K(Fin(3)), V("x"), K(Fin(5)), V("y"),
               V("x")>>,
             <<Lbl("o"), K(Fin(4)), T("BRKOP"), K(Fin(2)), V("x"), T("HAT"),
               K(Fin(2)), T("BRKCL"), T("SLASH"), K(Fin(2))>>,
             <<V("x"), T("BRKOP"), V("x"), T("HAT"), K(Fin(2)), K(Fin(3)),
               V("x"), T("HAT"), K(Fin(2)), V("x"), T("ASTERISK"), V("y"),
               K(Fin(2)), V("y"), T("ASTERISK"), V("x"), V("x"), T("HAT"),
               K(Fin(2)), T("BRKCL"), T("SLASH"), K(Fin(2)), V("x")>>}
    IN  {<<Obj("MAX")>> \o l \o q
             \o <<Sec("CON"), V("x"), Cmp("GEQ"), K(Fin(1))>> :
            l \in {<<>>, <<Lbl("o")>>}, q \in QuadExprs}
        \cup {<<Obj("MIN"), T("BRKOP"), V("y"), T("HAT"), K(Fin(2)),
                 T("BRKCL"), T("SLASH"), K(Fin(2)), Sec("CON")>>
                   \o l \o q \o <<Cmp("LEQ"), K(Fin(4))>> :
                 l \in {<<>>, <<Lbl("q")>>}, q \in QuadExprs \cup Objectives}
        \cup {<<Obj("MIN")>> \o o
                   \o <<Sec("CON"), V("x"), Cmp("GEQ"), K(Fin(1))>> :
                 o \in Objectives}

InitQuad ==
    \/ \E ptoks \in QuadInputs \cup Scenarios : InitWith(ptoks)
    \/ \E text \in FileScenarios : InitFile(text)

SpecQuad == InitQuad /\ [][Next]_vars

(***************************************************************************)
(* SOS sections: up to MaxGroups pieces, each a group or a malformed one   *)
(***************************************************************************)
MaxGroups == 2

SosInputs ==
    LET ty(c) == ProcessedSOSTypeToken(c)
        pieces ==
            {<<Lbl("g1"), ty(<<"S", "1">>)>>,
             <<Lbl("g1"), ty(<<"S", "1">>), Lbl("x"), K(Fin(1))>>,
             <<Lbl("g2"), ty(<<"s", "2">>), Lbl("x"), K(Fin(1)), Lbl("y"),
               K(Fin(2))>>,
             <<Lbl("g1"), ty(<<"S", "2">>), Lbl("w"), K(Fin(3))>>,
             <<Lbl("g3"), ty(<<"S", "3">>), Lbl("x"), K(Fin(1))>>,
             <<Lbl("g3"), ty(<<"X", "1">>)>>,
             <<Lbl("g3"), ty(<<"S">>)>>,
             <<Lbl("g3"), ty(<<"S", "1", "2">>)>>,
             <<ty(<<"S", "1">>), Lbl("x"), K(Fin(1))>>,
             <<Lbl("g1"), Lbl("x"), K(Fin(1))>>,
             <<Lbl("g1")>>,
             <<V("x"), K(Fin(1))>>,
             <<K(Fin(1))>>}
    IN  {<<Obj("MIN"), V("x"), Sec("CON"), V("x"), Cmp("GEQ"), K(Fin(0)),
           Sec("SOS")>> \o sb \o <<Sec("END")>> :
            sb \in {<<>>} \cup Concats(pieces, MaxGroups)}

InitSos ==
    \/ \E ptoks \in SosInputs \cup Scenarios : InitWith(ptoks)
    \/ \E text \in FileScenarios : InitFile(text)

SpecSos == InitSos /\ [][Next]_vars

(***************************************************************************)
(* Section order: an objective, a constraints, a bounds and a general      *)
(* section in each of their orders                                         *)
(***************************************************************************)
OrderInputs ==
    LET kinds == {"OBJ", "CON", "BOUNDS", "GEN"}
        orders == {o \in [1..4 -> kinds] :
                      \A a, b \in 1..4 : a # b => o[a] # o[b]}
        objs == {<<V("x")>>, <<K(Fin(2)), V("y"), V("x"), Cmp("LEQ")>>}
        cons == {<<V("y"), Cmp("LEQ"), K(Fin(1))>>,
                 <<Lbl("c1"), V("x"), Cmp("LEQ"), K(Fin(1)), V("y"),
                   Cmp("GEQ"), K(Fin(2))>>,
                 <<V("z"), V("x"), Cmp("EQ"), K(Fin(0)), V("y")>>}
        bnds == {<<V("z"), T("FREE")>>,
                 <<K(Fin(1)), Cmp("LEQ"), V("y"), V("u")>>}
        gens == {<<V("w"), V("x")>>, <<>>}
    IN  {LET sec(kw) == IF kw = "OBJ" THEN <<Obj("MAX")>> \o ob
                        ELSE IF kw = "CON" THEN <<Sec("CON")>> \o cb
                        ELSE IF kw = "BOUNDS" THEN <<Sec("BOUNDS")>> \o bb
                        ELSE <<Sec("GEN")>> \o gb
         IN  sec(o[1]) \o sec(o[2]) \o sec(o[3]) \o sec(o[4]) \o e :
            o \in orders, ob \in objs, cb \in cons, bb \in bnds,
            gb \in gens, e \in {<<>>, <<Sec("END")>>}}

InitOrder ==
    \/ \E ptoks \in OrderInputs \cup Scenarios : InitWith(ptoks)
    \/ \E text \in FileScenarios : InitFile(text)

SpecOrder == InitOrder /\ [][Next]_vars

(***************************************************************************)
(* Whole reads: files as their characters, and raw-token vectors as a      *)
(* tokenize leaves them whose strtod takes "inf" and "infinity" for no     *)
(* number (the words then arrive as STR tokens)                            *)
(***************************************************************************)
TextInputs ==
    \* max\n o: - [ x ^ 2 ] / 2\nst\n c: x >= 1\nend\n
    { <<"m", "a", "x", "\n", " ", "o", ":", " ", "-", " ", "[", " ", "x",
        " ", "^", " ", "2", " ", "]", " ", "/", " ", "2", "\n", "s", "t",
        "\n", " ", "c", ":", " ", "x", " ", ">", "=", " ", "1", "\n", "e",
        "n", "d", "\n">>,
      \* min\n o: x\nst\n c: - [ x * y ] >= 1\nend\n
      <<"m", "i", "n", "\n", " ", "o", ":", " ", "x", "\n", "s", "t", "\n",
        " ", "c", ":", " ", "-", " ", "[", " ", "x", " ", "*", " ", "y", " ",
        "]", " ", ">", "=", " ", "1", "\n", "e", "n", "d", "\n">>,
      \* min\n o: x + [ x ^ 2 ] / 2\nst\n c: x >= 1\nend\n
      <<"m", "i", "n", "\n", " ", "o", ":", " ", "x", " ", "+", " ", "[",
        " ", "x", " ", "^", " ", "2", " ", "]", " ", "/", " ", "2", "\n",
        "s", "t", "\n", " ", "c", ":", " ", "x", " ", ">", "=", " ", "1",
        "\n", "e", "n", "d", "\n">>,
      \* min\n o: x - [ x ^ 2 ] / 2\nst\n c: x >= 1\nend\n
      <<"m", "i", "n", "\n", " ", "o", ":", " ", "x", " ", "-", " ", "[",
        " ", "x", " ", "^", " ", "2", " ", "]", " ", "/", " ", "2", "\n",
        "s", "t", "\n", " ", "c", ":", " ", "x", " ", ">", "=", " ", "1",
        "\n", "e", "n", "d", "\n">>,
      \* min\n o: x - y + 3\nst\n c: x >= 1\nend\n
      <<"m", "i", "n", "\n", " ", "o", ":", " ", "x", " ", "-", " ", "y",
        " ", "+", " ", "3", "\n", "s", "t", "\n", " ", "c", ":", " ", "x",
        " ", ">", "=", " ", "1", "\n", "e", "n", "d", "\n">>,
      \* min\n o: - x + 2 y - 3\nst\n c: x >= 1\nend\n
      <<"m", "i", "n", "\n", " ", "o", ":", " ", "-", " ", "x", " ", "+",
        " ", "2", " ", "y", " ", "-", " ", "3", "\n", "s", "t", "\n", " ",
        "c", ":", " ", "x", " ", ">", "=", " ", "1", "\n", "e", "n", "d",
        "\n">>,
      \* min\n o: 3 x - 4 y + 2 + 5\nst\n c: - x + y >= -1\nend\n
      <<"m", "i", "n", "\n", " ", "o", ":", " ", "3", " ", "x", " ", "-",
        " ", "4", " ", "y", " ", "+", " ", "2", " ", "+", " ", "5", "\n",
        "s", "t", "\n", " ", "c", ":", " ", "-", " ", "x", " ", "+", " ",
        "y", " ", ">", "=", " ", "-", "1", "\n", "e", "n", "d", "\n">>,
      \* max\n 2 + x - - y\nst\n c1: x + 2 - y <= 1\nend\n
      <<"m", "a", "x", "\n", " ", "2", " ", "+", " ", "x", " ", "-", " ",
        "-", " ", "y", "\n", "s", "t", "\n", " ", "c", "1", ":", " ", "x",
        " ", "+", " ", "2", " ", "-", " ", "y", " ", "<", "=", " ", "1",
        "\n", "e", "n", "d", "\n">>,
      \* MAXIMIZE\n o: x\nSubject To\n c: x >= 1\nBounds\n x <= 4\nGENERAL\n x\nSemi-Continuous\n y\nEND\n
      <<"M", "A", "X", "I", "M", "I", "Z", "E", "\n", " ", "o", ":", " ",
        "x", "\n", "S", "u", "b", "j", "e", "c", "t", " ", "T", "o", "\n",
        " ", "c", ":", " ", "x", " ", ">", "=", " ", "1", "\n", "B", "o",
        "u", "n", "d", "s", "\n", " ", "x", " ", "<", "=", " ", "4", "\n",
        "G", "E", "N", "E", "R", "A", "L", "\n", " ", "x", "\n", "S", "e",
        "m", "i", "-", "C", "o", "n", "t", "i", "n", "u", "o", "u", "s",
        "\n", " ", "y", "\n", "E", "N", "D", "\n">>,
      \* Minimum\n x\nSUCH THAT\n x >= 1\nBinaries\n x\nsemi\n y\nSOS\nEnd\n
      <<"M", "i", "n", "i", "m", "u", "m", "\n", " ", "x", "\n", "S", "U",
        "C", "H", " ", "T", "H", "A", "T", "\n", " ", "x", " ", ">", "=",
        " ", "1", "\n", "B", "i", "n", "a", "r", "i", "e", "s", "\n", " ",
        "x", "\n", "s", "e", "m", "i", "\n", " ", "y", "\n", "S", "O", "S",
        "\n", "E", "n", "d", "\n">>,
      \* st\n c: x >= 1\nend\n
      <<"s", "t", "\n", " ", "c", ":", " ", "x", " ", ">", "=", " ", "1",
        "\n", "e", "n", "d", "\n">>,
      \* min\nmax\n o: x\ns.t.\n c: x >= 1\nend\n
      <<"m", "i", "n", "\n", "m", "a", "x", "\n", " ", "o", ":", " ", "x",
        "\n", "s", ".", "t", ".", "\n", " ", "c", ":", " ", "x", " ", ">",
        "=", " ", "1", "\n", "e", "n", "d", "\n">>,
      \* max\nmin\n o: x\nst\n c: x >= 1\nend\n
      <<"m", "a", "x", "\n", "m", "i", "n", "\n", " ", "o", ":", " ", "x",
        "\n", "s", "t", "\n", " ", "c", ":", " ", "x", " ", ">", "=", " ",
        "1", "\n", "e", "n", "d", "\n">>,
      \* max\n o: x\nmin\nst\n c: x >= 1\nend\n
      <<"m", "a", "x", "\n", " ", "o", ":", " ", "x", "\n", "m", "i", "n",
        "\n", "s", "t", "\n", " ", "c", ":", " ", "x", " ", ">", "=", " ",
        "1", "\n", "e", "n", "d", "\n">>,
      \* min\n o: x\nst: x >= 1\nend\n
      <<"m", "i", "n", "\n", " ", "o", ":", " ", "x", "\n", "s", "t", ":",
        " ", "x", " ", ">", "=", " ", "1", "\n", "e", "n", "d", "\n">>,
      \* max\n o: x\nsubject\n to: x >= 1\nend\n
      <<"m", "a", "x", "\n", " ", "o", ":", " ", "x", "\n", "s", "u", "b",
        "j", "e", "c", "t", "\n", " ", "t", "o", ":", " ", "x", " ", ">",
        "=", " ", "1", "\n", "e", "n", "d", "\n">>,
      \* max\n o: x\nst\n c: x >= 1\ngen\n x\nbin\n y\nsemi - continuous\n x\nend\n
      <<"m", "a", "x", "\n", " ", "o", ":", " ", "x", "\n", "s", "t", "\n",
        " ", "c", ":", " ", "x", " ", ">", "=", " ", "1", "\n", "g", "e",
        "n", "\n", " ", "x", "\n", "b", "i", "n", "\n", " ", "y", "\n", "s",
        "e", "m", "i", " ", "-", " ", "c", "o", "n", "t", "i", "n", "u", "o",
        "u", "s", "\n", " ", "x", "\n", "e", "n", "d", "\n">>,
      \* min\n o: subject\nst\n c: subject >= 1\nend\n
      <<"m", "i", "n", "\n", " ", "o", ":", " ", "s", "u", "b", "j", "e",
        "c", "t", "\n", "s", "t", "\n", " ", "c", ":", " ", "s", "u", "b",
        "j", "e", "c", "t", " ", ">", "=", " ", "1", "\n", "e", "n", "d",
        "\n">>,
      \* 
      <<>>,
      \* \n
      <<"\n">>,
      \* end
      <<"e", "n", "d">>,
      \* \nend\n
      <<"\n", "e", "n", "d", "\n">>,
      \* min\n\n x\n\nst\n x >= 1\nend
      <<"m", "i", "n", "\n", "\n", " ", "x", "\n", "\n", "s", "t", "\n", " ",
        "x", " ", ">", "=", " ", "1", "\n", "e", "n", "d">>,
      \* \\ comment\nmin\n x ; trailing\nst\n x >= 1\r\nend\r\n
      <<"\\", " ", "c", "o", "m", "m", "e", "n", "t", "\n", "m", "i", "n",
        "\n", " ", "x", " ", ";", " ", "t", "r", "a", "i", "l", "i", "n",
        "g", "\n", "s", "t", "\n", " ", "x", " ", ">", "=", " ", "1", "\r",
        "\n", "e", "n", "d", "\r", "\n">>,
      \* max\n\tx\nst\n x>=1\nend\n
      <<"m", "a", "x", "\n", "\t", "x", "\n", "s", "t", "\n", " ", "x", ">",
        "=", "1", "\n", "e", "n", "d", "\n">>,
      \* min\n x \0\nst\n x >= 1\nend\n
      <<"m", "i", "n", "\n", " ", "x", " ", "NUL", "\n", "s", "t", "\n", " ",
        "x", " ", ">", "=", " ", "1", "\n", "e", "n", "d", "\n">>,
      \* \0
      <<"NUL">>,
      \* min\n x\nst\n x >= 1\nbounds\n x >= -inf\n y <= +infinity\nend\n
      <<"m", "i", "n", "\n", " ", "x", "\n", "s", "t", "\n", " ", "x", " ",
        ">", "=", " ", "1", "\n", "b", "o", "u", "n", "d", "s", "\n", " ",
        "x", " ", ">", "=", " ", "-", "i", "n", "f", "\n", " ", "y", " ",
        "<", "=", " ", "+", "i", "n", "f", "i", "n", "i", "t", "y", "\n",
        "e", "n", "d", "\n">>,
      \* min\n x\nst\n x >= 1\nbounds\n -infinity <= x <= inf\nend\n
      <<"m", "i", "n", "\n", " ", "x", "\n", "s", "t", "\n", " ", "x", " ",
        ">", "=", " ", "1", "\n", "b", "o", "u", "n", "d", "s", "\n", " ",
        "-", "i", "n", "f", "i", "n", "i", "t", "y", " ", "<", "=", " ", "x",
        " ", "<", "=", " ", "i", "n", "f", "\n", "e", "n", "d", "\n">>,
      \* min\n x\nst\n x <= Infinity\nbounds\n - INF <= x\nend\n
      <<"m", "i", "n", "\n", " ", "x", "\n", "s", "t", "\n", " ", "x", " ",
        "<", "=", " ", "I", "n", "f", "i", "n", "i", "t", "y", "\n", "b",
        "o", "u", "n", "d", "s", "\n", " ", "-", " ", "I", "N", "F", " ",
        "<", "=", " ", "x", "\n", "e", "n", "d", "\n">> }

RawInputs ==
    LET s(w) == RawStringToken(w)
        t(ty) == RawToken(ty)
        n(v) == RawConstantToken(v)
        head == <<s(<<"m", "i", "n">>), s(<<"x">>), s(<<"s", "t">>),
                  s(<<"x">>), t("GREATER"), t("EQUAL"), n(Fin(1)),
                  s(<<"b", "o", "u", "n", "d", "s">>)>>
        foot == <<s(<<"e", "n", "d">>), t("FLEND")>>
        signs == {<<>>, <<t("PLUS")>>, <<t("MINUS")>>}
        words == {s(<<"i", "n", "f">>),
                  s(<<"i", "n", "f", "i", "n", "i", "t", "y">>),
                  s(<<"I", "N", "F">>), n(PInf)}
    IN  {head \o <<s(<<"x">>), t("GREATER"), t("EQUAL")>> \o sg \o <<w>>
              \o foot : sg \in signs, w \in words}
        \cup {head \o sg \o <<w>> \o <<t("LESS"), t("EQUAL"), s(<<"x">>)>>
                   \o foot : sg \in signs, w \in words}

InitRead ==
    \/ \E text \in TextInputs \cup FileScenarios : InitFile(text)
    \/ \E raw \in RawInputs : InitRaw(raw)

SpecRead == InitRead /\ [][Next]_vars

(***************************************************************************)
(* The cursor loops: the files and raw tokens of SpecRead and the buckets  *)
(* of the constraints, bounds, SOS and quadratic inputs                    *)
(***************************************************************************)
InitLoops ==
    \/ InitRead
    \/ \E ptoks \in ConInputs \cup BoundsInputs \cup SosInputs \cup QuadInputs :
          InitWith(ptoks)

SpecLoops == InitLoops /\ [][Next]_vars

Init ==
    \/ \E ptoks \in Scenarios \cup ConInputs \cup BoundsInputs : InitWith(ptoks)
    \/ \E text \in FileScenarios : InitFile(text)

Spec == Init /\ [][Next]_vars

(***************************************************************************)
(* Properties                                                              *)
(***************************************************************************)
ConTokens == sectiontokens["CON"]
BoundsTokens == sectiontokens["BOUNDS"]
Returned == pc = "done"
ModelVars == builder.model.variables
VarNames(b) == {b.model.variables[k].name : k \in DOMAIN b.model.variables}
VarOf(b, n) ==
    b.model.variables[CHOOSE k \in DOMAIN b.model.variables :
                          b.model.variables[k].name = n]
IsStrict(tok) == tok.type = "COMP" /\ tok.dir \in {"L", "G"}

\* C1: for every constraint parsed by processconsec, the first and every
\* later one, parseexpression takes a leading token as the name exactly when
\* the token at the cursor i is a CONSTRAINT_LABEL: a labelled constraint gets
\* its label as name; an unlabelled one keeps the empty name and its first
\* term token stays a term.
C1_LabelAtCursor ==
    [][(pc = "con" /\ i < Len(ConTokens)) =>
          LET tok == At(ConTokens, i)
          IN  /\ pc' # "crash"
              /\ IF tok.type = "CONID"
                 THEN con'.expr.name = tok.name
                 ELSE /\ con'.expr.name = ""
                      /\ tok.type = "VARID" => con'.expr.linterms # <<>>]_vars

\* C2: a processed-token vector that holds two SECTION_HEADER tokens of the
\* same kind never gets past splittokens: splittokens fails and read returns
\* no model.
C2_DuplicateHeaderFails ==
    (\E a, b \in DOMAIN processedtokens :
        /\ a # b
        /\ processedtokens[a].type = "SECID"
        /\ processedtokens[b].type = "SECID"
        /\ processedtokens[a].keyword = processedtokens[b].keyword)
    => pc \in {"splittokens", "error"}

\* the names the sections of the file refer to: the VARID tokens of the
\* objective, constraints, bounds, general, binary and semi sections and the
\* labels of the "name : weight" entries of the SOS section
ReferencedNames ==
    UNION {{sectiontokens[kw][k].name :
               k \in {q \in DOMAIN sectiontokens[kw] :
                         sectiontokens[kw][q].type = "VARID"}} :
              kw \in {"OBJ", "CON", "BOUNDS", "GEN", "BIN", "SEMI"}}
    \cup {sectiontokens["SOS"][k].name :
            k \in {q \in DOMAIN sectiontokens["SOS"] :
                     /\ q + 1 \in DOMAIN sectiontokens["SOS"]
                     /\ sectiontokens["SOS"][q].type = "CONID"
                     /\ sectiontokens["SOS"][q + 1].type = "CONST"}}

\* the entities the terms and SOS entries of the model point to
ReferencedEntities ==
    LET m == builder.model
        ofExpr(e) ==
            {e.linterms[k].var : k \in DOMAIN e.linterms}
            \cup {e.quadterms[k].var1 : k \in DOMAIN e.quadterms}
            \cup {e.quadterms[k].var2 : k \in DOMAIN e.quadterms}
    IN  ofExpr(m.objective)
        \cup UNION {ofExpr(m.constraints[k].expr) : k \in DOMAIN m.constraints}
        \cup UNION {{m.soss[k].entries[e].var : e \in DOMAIN m.soss[k].entries} :
                       k \in DOMAIN m.soss}

\* C3: in every model returned by read, every variable name the objective, a
\* constraint, a bounds entry, a general/binary/semi section or an SOS entry
\* refers to is in the variable set exactly once, and every term points to an
\* entity of that set.
C3_ReferencedVariablesInterned ==
    Returned =>
        /\ ReferencedNames \subseteq VarNames(builder)
        /\ \A a, b \in DOMAIN ModelVars :
               ModelVars[a].name = ModelVars[b].name => a = b
        /\ ReferencedEntities \subseteq DOMAIN ModelVars

\* C4: in every model returned by read, every variable of type binary has
\* lower bound 0 and upper bound 1, whatever the bounds section wrote and
\* wherever the sections stand in the file.
C4_BinaryBounds ==
    Returned =>
        \A k \in DOMAIN ModelVars :
            ModelVars[k].type = "BINARY" =>
                /\ ModelVars[k].lowerbound = Fin(0)
                /\ ModelVars[k].upperbound = Fin(1)

\* position of the first header of kind kw in the file
HeaderPos(kw) ==
    CHOOSE k \in DOMAIN processedtokens :
        processedtokens[k].type = "SECID" /\ processedtokens[k].keyword = kw

\* a returned model with a binary x whose bounds a bounds section, standing
\* after the binary section in the file, had set to [2, 5]
C4_Witness ==
    /\ Returned
    /\ BoundsTokens = <<K(Fin(2)), Cmp("LEQ"), V("x"), Cmp("LEQ"), K(Fin(5))>>
    /\ HeaderPos("BIN") < HeaderPos("BOUNDS")
    /\ "x" \in VarNames(builder)
    /\ VarOf(builder, "x").type = "BINARY"

MentionedIn(kw, n) ==
    \E k \in DOMAIN sectiontokens[kw] :
        sectiontokens[kw][k].type = "VARID" /\ sectiontokens[kw][k].name = n

\* C5: whatever the number of mentions per section, a variable mentioned in
\* the general and in the semi section ends semi-integer, one mentioned only
\* in general ends general-integer, one mentioned only in semi ends
\* semi-continuous.
C5_GeneralSemiTypes ==
    Returned =>
        \A k \in DOMAIN ModelVars :
            LET v == ModelVars[k]
                g == MentionedIn("GEN", v.name)
                m == MentionedIn("SEMI", v.name)
                n == MentionedIn("BIN", v.name)
            IN  /\ g /\ m => v.type = "SEMIINTEGER"
                /\ g /\ ~m /\ ~n => v.type = "GENERAL"
                /\ m /\ ~g /\ ~n => v.type = "SEMICONTINUOUS"

Constraints == builder.model.constraints

\* C6: processconsec reads the bucket as a repetition of expression,
\* COMPARISON, CONSTANT v: "=" gives lower = upper = v, "<=" gives upper = v
\* and leaves lower at -inf, ">=" gives lower = v and leaves upper at +inf; a
\* missing COMPARISON or a right-hand side that is no CONSTANT is a parse
\* error; every comparison appends one constraint at the end of the list.
C6_ConstraintBounds ==
    /\ [][pc = "con_compare" =>
             LET t == ConTokens
                 wellformed ==
                     /\ Len(t) - i >= 2
                     /\ TypeAt(t, i) = "COMP"
                     /\ TypeAt(t, i + 1) = "CONST"
             IN  IF ~wellformed
                 THEN pc' = "error" /\ Constraints' = Constraints
                 ELSE LET dir == At(t, i).dir
                          v == At(t, i + 1).value
                      IN  dir \in {"EQ", "LEQ", "GEQ"} =>
                              /\ pc' = "con"
                              /\ i' = i + 2
                              /\ Constraints' =
                                     Append(Constraints,
                                         [expr |-> con.expr,
                                          lowerbound |->
                                              IF dir = "LEQ" THEN NInf ELSE v,
                                          upperbound |->
                                              IF dir = "GEQ" THEN PInf ELSE v])
       ]_vars
    /\ [][Constraints' # Constraints => pc = "con_compare"]_vars

\* a returned model with "<= 1" first and ">= +inf" second
C6_Witness ==
    /\ Returned
    /\ Len(Constraints) = 2
    /\ Constraints[1].lowerbound = NInf
    /\ Constraints[1].upperbound = Fin(1)
    /\ Constraints[2].lowerbound = PInf
    /\ Constraints[2].upperbound = PInf
    /\ Constraints[1].expr.name = "c1"
    /\ Constraints[2].expr.name = "c2"

\* C7: in every model returned by read, every constraint has
\* lower <= upper, for every accepted comparison and right-hand side.
C7_LowerLeqUpper ==
    Returned =>
        \A k \in DOMAIN Constraints :
            DLeq(Constraints[k].lowerbound, Constraints[k].upperbound)

\* the entry at the cursor of processboundssec, by the types of its tokens
EntryFree(t, j) ==
    Len(t) - j >= 2 /\ TypeAt(t, j) = "VARID" /\ TypeAt(t, j + 1) = "FREE"
EntryFive(t, j) ==
    /\ Len(t) - j >= 5
    /\ TypeAt(t, j) = "CONST"
    /\ TypeAt(t, j + 1) = "COMP"
    /\ TypeAt(t, j + 2) = "VARID"
    /\ TypeAt(t, j + 3) = "COMP"
    /\ TypeAt(t, j + 4) = "CONST"
EntryConstVar(t, j) ==
    /\ Len(t) - j >= 3
    /\ TypeAt(t, j) = "CONST"
    /\ TypeAt(t, j + 1) = "COMP"
    /\ TypeAt(t, j + 2) = "VARID"
EntryVarConst(t, j) ==
    /\ Len(t) - j >= 3
    /\ TypeAt(t, j) = "VARID"
    /\ TypeAt(t, j + 1) = "COMP"
    /\ TypeAt(t, j + 2) = "CONST"

\* C8: a strict comparison is never accepted: when the comparison of a
\* constraint is "<" or ">", or a COMPARISON of a matched bounds entry (either
\* one of the five-token form) is, read fails and returns no model.
C8_StrictRejected ==
    /\ [][(pc = "con_compare" /\ i < Len(ConTokens)
             /\ IsStrict(At(ConTokens, i))) => pc' = "error"]_vars
    /\ [][(/\ pc = "bounds"
           /\ i < Len(BoundsTokens)
           /\ LET t == BoundsTokens
              IN  IF EntryFive(t, i)
                  THEN IsStrict(At(t, i + 1)) \/ IsStrict(At(t, i + 3))
                  ELSE /\ EntryConstVar(t, i) \/ EntryVarConst(t, i)
                       /\ IsStrict(At(t, i + 1)))
            => pc' = "error"]_vars
    /\ [][pc = "error" => pc' = "error"]_vars

\* read has failed on a five-token bounds entry whose second comparison is "<"
C8_Witness ==
    /\ pc = "error"
    /\ ConTokens = <<>>
    /\ i < Len(BoundsTokens)
    /\ EntryFive(BoundsTokens, i)
    /\ ~IsStrict(At(BoundsTokens, i + 1))
    /\ IsStrict(At(BoundsTokens, i + 3))

\* the variable an entry of the bounds section names
EntryName(t, j) ==
    IF EntryFree(t, j) \/ EntryVarConst(t, j) THEN At(t, j).name
    ELSE At(t, j + 2).name

\* C9: processboundssec tries the forms in the order VARID FREE,
\* CONST <= VARID <= CONST, CONST COMP VARID, VARID COMP CONST: "x free" sets
\* [-inf, +inf]; the five-token form sets lower to the first and upper to the
\* second constant; "c <= x" sets lower, "c >= x" sets upper; "x <= c" sets
\* upper, "x >= c" sets lower; "=" sets both; tokens that match no form are a
\* parse error.  (Five tokens of the types CONST COMP VARID COMP CONST whose
\* comparisons are not both "<=" end in a parse error under either reading.)
C9_BoundsForms ==
    [][(pc = "bounds" /\ i < Len(BoundsTokens)) =>
          LET t == BoundsTokens
              name == EntryName(t, i)
              accepted(k) ==
                  /\ pc' = "bounds"
                  /\ i' = i + k
                  /\ name \in VarNames(builder')
              lower == VarOf(builder', name).lowerbound
              upper == VarOf(builder', name).upperbound
              dir == At(t, i + 1).dir
          IN  IF EntryFree(t, i)
              THEN accepted(2) /\ lower = NInf /\ upper = PInf
              ELSE IF EntryFive(t, i)
              THEN IF dir = "LEQ" /\ At(t, i + 3).dir = "LEQ"
                   THEN /\ accepted(5)
                        /\ lower = At(t, i).value
                        /\ upper = At(t, i + 4).value
                   ELSE pc' = "error"
              ELSE IF EntryConstVar(t, i)
              THEN /\ dir = "LEQ" => accepted(3) /\ lower = At(t, i).value
                   /\ dir = "GEQ" => accepted(3) /\ upper = At(t, i).value
                   /\ dir = "EQ" => /\ accepted(3)
                                    /\ lower = At(t, i).value
                                    /\ upper = At(t, i).value
              ELSE IF EntryVarConst(t, i)
              THEN /\ dir = "LEQ" => accepted(3) /\ upper = At(t, i + 2).value
                   /\ dir = "GEQ" => accepted(3) /\ lower = At(t, i + 2).value
                   /\ dir = "EQ" => /\ accepted(3)
                                    /\ lower = At(t, i + 2).value
                                    /\ upper = At(t, i + 2).value
              ELSE pc' = "error"]_vars

\* "2 <= x" has been processed: lower bound 2, upper bound still +inf
C9_Witness ==
    /\ pc = "bounds"
    /\ i = 3
    /\ EntryConstVar(BoundsTokens, 0)
    /\ ~EntryFive(BoundsTokens, 0)
    /\ At(BoundsTokens, 1).dir = "LEQ"
    /\ At(BoundsTokens, 2).name = "x"
    /\ VarOf(builder, "x").lowerbound = Fin(2)
    /\ VarOf(builder, "x").upperbound = PInf

\* the writes of the entries of t from position j on, by the forms of the
\* bounds section: <<v>> for a bound the entry names, <<>> for one it does not
RECURSIVE BoundsWrites(_, _)
BoundsWrites(t, j) ==
    LET w(lo, up) == [name |-> EntryName(t, j), lower |-> lo, upper |-> up]
        dir == At(t, j + 1).dir
    IN  IF EntryFree(t, j)
        THEN <<w(<<NInf>>, <<PInf>>)>> \o BoundsWrites(t, j + 2)
        ELSE IF EntryFive(t, j)
        THEN <<w(<<At(t, j).value>>, <<At(t, j + 4).value>>)>>
             \o BoundsWrites(t, j + 5)
        ELSE IF EntryConstVar(t, j)
        THEN <<w(IF dir \in {"LEQ", "EQ"} THEN <<At(t, j).value>> ELSE <<>>,
                 IF dir \in {"GEQ", "EQ"} THEN <<At(t, j).value>> ELSE <<>>)>>
             \o BoundsWrites(t, j + 3)
        ELSE IF EntryVarConst(t, j)
        THEN <<w(IF dir \in {"GEQ", "EQ"} THEN <<At(t, j + 2).value>>
                 ELSE <<>>,
                 IF dir \in {"LEQ", "EQ"} THEN <<At(t, j + 2).value>>
                 ELSE <<>>)>>
             \o BoundsWrites(t, j + 3)
        ELSE <<>>

\* the value of the last write of ws to a bound of the variable n, or dflt
LastLower(ws, n, dflt) ==
    LET hits == {k \in DOMAIN ws : ws[k].name = n /\ ws[k].lower # <<>>}
    IN  IF hits = {} THEN dflt
        ELSE ws[CHOOSE k \in hits : \A h \in hits : h <= k].lower[1]

LastUpper(ws, n, dflt) ==
    LET hits == {k \in DOMAIN ws : ws[k].name = n /\ ws[k].upper # <<>>}
    IN  IF hits = {} THEN dflt
        ELSE ws[CHOOSE k \in hits : \A h \in hits : h <= k].upper[1]

\* C10: bounds entries apply in section order, the last writer wins: after
\* the bounds section each bound of a variable is the value of the last entry
\* that names that bound (0 and +inf when none does); an entry leaves the
\* bounds it does not name, the type of its variable and every other variable
\* as they were; "x free" then "x <= 5" gives [-inf, 5].
C10_LastWriterWins ==
    /\ [](pc = "gen" =>
             LET ws == BoundsWrites(BoundsTokens, 0)
             IN  \A k \in DOMAIN ModelVars :
                     /\ ModelVars[k].lowerbound =
                            LastLower(ws, ModelVars[k].name, Fin(0))
                     /\ ModelVars[k].upperbound =
                            LastUpper(ws, ModelVars[k].name, PInf))
    /\ [](pc = "gen" /\ BoundsTokens = <<V("x"), T("FREE"), V("x"),
                                          Cmp("LEQ"), K(Fin(5))>>
             => /\ VarOf(builder, "x").lowerbound = NInf
                /\ VarOf(builder, "x").upperbound = Fin(5))
    /\ [][(pc = "bounds" /\ pc' = "bounds") =>
             LET name == EntryName(BoundsTokens, i)
                 w == BoundsWrites(BoundsTokens, i)[1]
                 old == IF name \in VarNames(builder) THEN VarOf(builder, name)
                        ELSE [name |-> name, lowerbound |-> Fin(0),
                              upperbound |-> PInf, type |-> "CONTINUOUS"]
                 new == VarOf(builder', name)
             IN  /\ \A k \in DOMAIN ModelVars :
                        ModelVars[k].name # name => ModelVars'[k] = ModelVars[k]
                 /\ Len(ModelVars') =
                        Len(ModelVars)
                        + (IF name \in VarNames(builder) THEN 0 ELSE 1)
                 /\ new.type = old.type
                 /\ w.lower = <<>> => new.lowerbound = old.lowerbound
                 /\ w.upper = <<>> => new.upperbound = old.upperbound]_vars

\* the bounds section "x free  x <= 5" has been processed
C10_Witness ==
    /\ pc = "gen"
    /\ BoundsTokens = <<V("x"), T("FREE"), V("x"), Cmp("LEQ"), K(Fin(5))>>
    /\ VarOf(builder, "x").lowerbound = NInf
    /\ VarOf(builder, "x").upperbound = Fin(5)

\* the position of the calls of read: tokenize, processtokens, splittokens
\* and the section processors in the order of processsections
Stage(p) ==
    CASE p = "tokenize" -> 0 [] p = "processtokens" -> 1
      [] p = "splittokens" -> 2 [] p = "none" -> 3 [] p = "obj" -> 4
      [] p = "con" -> 5 [] p = "con_compare" -> 5 [] p = "bounds" -> 6
      [] p = "gen" -> 7 [] p = "bin" -> 8 [] p = "semi" -> 9
      [] p = "sos" -> 10 [] p = "end" -> 11 [] p = "done" -> 12
      [] OTHER -> -1

ObjTokens == sectiontokens["OBJ"]

\* the positions of the tokens of type ty in the token vector t
Positions(t, ty) == {k \in DOMAIN t : t[k].type = ty}

\* the first BRKCL of t after position k, 0 when there is none
ClosingOf(t, k) ==
    LET cl == {c \in Positions(t, "BRKCL") : c > k}
    IN  IF cl = {} THEN 0 ELSE CHOOSE c \in cl : \A d \in cl : c <= d

IsTwo(t, k) == k \in DOMAIN t /\ t[k].type = "CONST" /\ DEq(t[k].value, Fin(2))

\* C11: in the objective the terms of a quadratic block must be followed by
\* BRACKET_CLOSE SLASH CONSTANT(2), all of which parseexpression consumes: an
\* objective is parsed only if each of its blocks ends that way and it has no
\* other SLASH.  In a constraint only BRACKET_CLOSE belongs to the block: a
\* returned model has no constraint whose block is followed by a SLASH, and
\* every block of a constraint is closed.
C11_QuadBlockEnd ==
    /\ Stage(pc) > Stage("obj") =>
          /\ \A k \in Positions(ObjTokens, "BRKOP") :
                 LET c == ClosingOf(ObjTokens, k)
                 IN  /\ c # 0
                     /\ c + 1 \in Positions(ObjTokens, "SLASH")
                     /\ IsTwo(ObjTokens, c + 2)
          /\ \A k \in Positions(ObjTokens, "SLASH") :
                 /\ k - 1 \in Positions(ObjTokens, "BRKCL")
                 /\ IsTwo(ObjTokens, k + 1)
    /\ Returned =>
          /\ \A k \in Positions(ConTokens, "BRKOP") :
                 ClosingOf(ConTokens, k) # 0
          /\ \A k \in Positions(ConTokens, "BRKCL") :
                 k + 1 \notin Positions(ConTokens, "SLASH")

\* a returned model whose objective and whose constraint hold a quadratic
\* block
C11_Witness ==
    /\ Returned
    /\ Positions(ObjTokens, "BRKOP") # {}
    /\ Positions(ConTokens, "BRKOP") # {}
    /\ builder.model.objective.quadterms # <<>>
    /\ \E k \in DOMAIN Constraints : Constraints[k].expr.quadterms # <<>>

\* the token at position k of t stands inside a quadratic block: a BRKOP
\* precedes it with no BRKCL in between
InBlock(t, k) ==
    \E b \in Positions(t, "BRKOP") :
        b < k /\ \A c \in Positions(t, "BRKCL") : ~(b < c /\ c < k)

\* the exponents of the terms VARIABLE_ID CARET CONSTANT inside the blocks
\* of t
Exponents(t) ==
    {t[k + 1].value :
        k \in {h \in Positions(t, "HAT") :
                  /\ InBlock(t, h)
                  /\ h - 1 \in Positions(t, "VARID")
                  /\ h + 1 \in Positions(t, "CONST")}}

\* C12: inside a quadratic block a term [CONSTANT] VARIABLE_ID CARET
\* CONSTANT(e) with e # 2 is a parse error: an objective or a constraints
\* section that has been parsed holds no such term, so none reaches a
\* returned model.
C12_ExponentTwo ==
    /\ Stage(pc) > Stage("obj") => \A e \in Exponents(ObjTokens) : DEq(e, Fin(2))
    /\ Stage(pc) > Stage("con") => \A e \in Exponents(ConTokens) : DEq(e, Fin(2))

\* a returned model with the term x^2 in a block of the objective and in a
\* block of a constraint
C12_Witness ==
    /\ Returned
    /\ Exponents(ObjTokens) # {}
    /\ Exponents(ConTokens) # {}
    /\ \E k \in DOMAIN Constraints :
           \E q \in DOMAIN Constraints[k].expr.quadterms :
               Constraints[k].expr.quadterms[q].var1
                   = Constraints[k].expr.quadterms[q].var2

\* the k-th SOS_TYPE token of t, counted from 1
NthType(t, k) ==
    CHOOSE p \in Positions(t, "SOSTYPE") :
        Cardinality({q \in Positions(t, "SOSTYPE") : q < p}) = k - 1

\* the positions of the "name : weight" pairs that follow the SOS_TYPE at p:
\* they run up to the name of the next group or to the end of the section
PairsAfter(t, p) ==
    LET later == {q \in Positions(t, "SOSTYPE") : q > p}
        stop == IF later = {} THEN Len(t)
                ELSE (CHOOSE q \in later : \A r \in later : q <= r) - 2
    IN  [first |-> p + 1, last |-> stop]

\* an SOS section by the grammar: groups of a label, an SOS_TYPE spelled S or
\* s and 1 or 2, and label-constant pairs
SosGrammar(t) ==
    /\ t # <<>> => 2 \in Positions(t, "SOSTYPE")
    /\ \A p \in Positions(t, "SOSTYPE") :
          /\ p > 1 /\ t[p - 1].type = "CONID"
          /\ Len(t[p].sostype) = 2
          /\ t[p].sostype[1] \in {"S", "s"}
          /\ t[p].sostype[2] \in {"1", "2"}
          /\ LET r == PairsAfter(t, p)
             IN  /\ r.last >= r.first - 1
                 /\ (r.last - r.first + 1) % 2 = 0
                 /\ \A q \in r.first .. r.last :
                       t[q].type = IF (q - r.first) % 2 = 0 THEN "CONID"
                                   ELSE "CONST"

\* C13: when the SOS section has been processed without a parse error, its
\* tokens are groups of a name, an SOS_TYPE whose text is S or s followed by
\* 1 or 2, and name-constant pairs; the model holds one group per SOS_TYPE,
\* in order, with that name, the type 1 or 2 of the digit, and one entry per
\* pair, in order, of the variable of the variable set with that name and
\* the weight.
C13_SosGroups ==
    LET t == sectiontokens["SOS"]
        soss == builder.model.soss
    IN  Stage(pc) > Stage("sos") =>
          /\ SosGrammar(t)
          /\ Len(soss) = Cardinality(Positions(t, "SOSTYPE"))
          /\ \A g \in DOMAIN soss :
                LET p == NthType(t, g)
                    r == PairsAfter(t, p)
                IN  /\ soss[g].name = t[p - 1].name
                    /\ soss[g].type \in {1, 2}
                    /\ soss[g].type = IF t[p].sostype[2] = "1" THEN 1 ELSE 2
                    /\ Len(soss[g].entries) = (r.last - r.first + 1) \div 2
                    /\ \A e \in DOMAIN soss[g].entries :
                          LET en == soss[g].entries[e]
                              q == r.first + 2 * (e - 1)
                          IN  /\ en.var \in DOMAIN ModelVars
                              /\ ModelVars[en.var].name = t[q].name
                              /\ en.weight = t[q + 1].value

\* a model was returned with two SOS groups of different types, the second
\* with two entries
C13_Witness ==
    /\ Returned
    /\ Len(builder.model.soss) = 2
    /\ builder.model.soss[1].type = 1
    /\ builder.model.soss[2].type = 2
    /\ Len(builder.model.soss[1].entries) = 1
    /\ Len(builder.model.soss[2].entries) = 2

\* a processed token that is no section header stands before the first
\* header (splittokens leaves the headers in place and nulls what it moves)
NonHeaderBeforeFirst ==
    processedtokens # <<>> /\ processedtokens[1].type # "SECID"

\* a processed token that is no section header follows an end header
NonHeaderAfterEnd ==
    \E k \in DOMAIN processedtokens :
        /\ processedtokens[k].type = "SECID"
        /\ processedtokens[k].keyword = "END"
        /\ k + 1 \in DOMAIN processedtokens
        /\ processedtokens[k + 1].type # "SECID"

\* C14: a token before the first section header lands in the "none" bucket
\* and a token after an end header in the end bucket; processnonesec and
\* processendsec fail with a parse error on a non-empty bucket, and read
\* returns no model for such a file.
C14_NoneAndEndEmpty ==
    [][/\ (pc = "splittokens" /\ pc' = "none") =>
             /\ NonHeaderBeforeFirst' <=> sectiontokens'["NONE"] # <<>>
             /\ NonHeaderAfterEnd' <=> sectiontokens'["END"] # <<>>
       /\ (pc = "none" /\ sectiontokens["NONE"] # <<>>) => pc' = "error"
       /\ (pc = "end" /\ sectiontokens["END"] # <<>>) => pc' = "error"
       /\ pc' = "done" =>
             /\ ~NonHeaderBeforeFirst' /\ ~NonHeaderAfterEnd'
             /\ sectiontokens'["NONE"] = <<>>
             /\ sectiontokens'["END"] = <<>>]_vars

\* read failed in processendsec: every section before it was passed with an
\* empty bucket, and a token had followed the end header
C14_Witness ==
    /\ pc = "error"
    /\ NonHeaderAfterEnd
    /\ sectiontokens["END"] # <<>>
    /\ \A kw \in DOMAIN sectiontokens \ {"END"} : sectiontokens[kw] = <<>>
    /\ \A k \in DOMAIN processedtokens :
          processedtokens[k].type = "SECID" =>
             \A q \in DOMAIN processedtokens :
                (q # k /\ processedtokens[q].type = "SECID") =>
                   processedtokens[q].keyword # processedtokens[k].keyword

\* a "-" stands directly before a "[" in the raw tokens
MinusBeforeBracket ==
    \E k \in DOMAIN rawtokens :
        /\ k + 1 \in DOMAIN rawtokens
        /\ rawtokens[k].type = "MINUS"
        /\ rawtokens[k + 1].type = "BRKOP"

\* C15: a file in which a "-" directly precedes a "[" is rejected: read
\* returns no model for it.
C15_MinusBracketRejected == MinusBeforeBracket => ~Returned

\* the expression e is what the tokens a..b of t, all of them constants and
\* variables, denote: one linear term per variable, in order, with the
\* constant directly before it as coefficient and +1 when there is none, and
\* as offset the last constant that no variable follows (0 without one)
Denotes(e, t, a, b) ==
    LET vs == {q \in a..b : t[q].type = "VARID"}
        lone == {q \in a..b : /\ t[q].type = "CONST"
                              /\ (q = b \/ t[q + 1].type # "VARID")}
    IN  /\ Len(e.linterms) = Cardinality(vs)
        /\ e.quadterms = <<>>
        /\ \A n \in DOMAIN e.linterms :
              LET q == CHOOSE r \in vs :
                           Cardinality({r2 \in vs : r2 < r}) = n - 1
              IN  /\ e.linterms[n].coef =
                        IF q > a /\ t[q - 1].type = "CONST"
                        THEN t[q - 1].value ELSE Fin(1)
                  /\ e.linterms[n].var \in DOMAIN ModelVars
                  /\ ModelVars[e.linterms[n].var].name = t[q].name
        /\ e.offset = IF lone = {} THEN Fin(0)
                      ELSE t[CHOOSE q \in lone : \A r \in lone : r <= q].value

\* the first token of an expression after its label
AfterLabel(t) == IF t # <<>> /\ t[1].type = "CONID" THEN 2 ELSE 1

Linear(t, a, b) == \A q \in a..b : t[q].type \in {"CONST", "VARID"}

\* the raw tokens from position k on spell "x - y + 3"
XMinusYPlus3At(k) ==
    /\ k + 5 \in DOMAIN rawtokens
    /\ rawtokens[k - 1].type = "COLON"
    /\ rawtokens[k].type = "STR" /\ rawtokens[k].value = <<"x">>
    /\ rawtokens[k + 1].type = "MINUS"
    /\ rawtokens[k + 2].type = "STR" /\ rawtokens[k + 2].value = <<"y">>
    /\ rawtokens[k + 3].type = "PLUS"
    /\ rawtokens[k + 4].type = "CONS" /\ rawtokens[k + 4].cons = Fin(3)
    /\ rawtokens[k + 5].type = "STR"
    /\ rawtokens[k + 5].value = <<"s", "t">>

\* tokenize has run to its end: the raw tokens end with FLEND
Tokenized ==
    rawtokens # <<>> /\ rawtokens[Len(rawtokens)].type = "FLEND"

\* the 0-based positions of raw at which the loop of processtokens, started
\* at k, looks for a production
RECURSIVE LoopPositions(_, _)
LoopPositions(raw, k) ==
    IF ~(k < Len(raw)) THEN {}
    ELSE {k} \cup (IF ClassifyAt(raw, k).adv = 0 THEN {}
                   ELSE LoopPositions(raw, k + ClassifyAt(raw, k).adv))

\* C16: the classifier folds a sign directly before a number into one signed
\* constant and turns a sign before a variable into the constant +1 / -1;
\* parseexpression makes a linear term of a constant followed by a variable
\* and of a variable alone (coefficient +1), and a constant no variable
\* follows overwrites the offset, the last one winning; the objective
\* "x - y + 3" yields the terms (+1, x), (-1, y) and the offset 3.
C16_SignsAndOffset ==
    /\ LET reached == IF Tokenized THEN LoopPositions(rawtokens, 0) ELSE {}
       IN \A k \in DOMAIN rawtokens :
          (/\ k - 1 \in reached
           /\ k + 1 \in DOMAIN rawtokens
           /\ rawtokens[k].type \in {"PLUS", "MINUS"}) =>
             LET sgn == IF rawtokens[k].type = "PLUS" THEN 1 ELSE -1
                 nxt == rawtokens[k + 1]
                 r == ClassifyAt(rawtokens, k - 1)
             IN  /\ (nxt.type = "CONS" /\ nxt.cons.k = "fin") =>
                       /\ r.adv = 2
                       /\ r.toks = <<ProcessedConstantToken(
                                         Fin(sgn * nxt.cons.n))>>
                 /\ (/\ nxt.type = "STR"
                     /\ ClassifyAt(rawtokens, k).toks # <<>>
                     /\ ClassifyAt(rawtokens, k).toks[1].type = "VARID") =>
                       /\ r.adv = 1
                       /\ r.toks = <<ProcessedConstantToken(Fin(sgn))>>
    /\ (/\ Stage(pc) > Stage("obj")
        /\ Linear(ObjTokens, AfterLabel(ObjTokens), Len(ObjTokens))) =>
          Denotes(builder.model.objective, ObjTokens, AfterLabel(ObjTokens),
                  Len(ObjTokens))
    /\ (/\ Stage(pc) > Stage("con")
        /\ Positions(ConTokens, "COMP") # {}) =>
          LET b == (CHOOSE q \in Positions(ConTokens, "COMP") :
                       \A r \in Positions(ConTokens, "COMP") : q <= r) - 1
          IN  Linear(ConTokens, AfterLabel(ConTokens), b) =>
                 Denotes(builder.model.constraints[1].expr, ConTokens,
                         AfterLabel(ConTokens), b)
    /\ (Stage(pc) > Stage("obj") /\ \E k \in DOMAIN rawtokens \ {1} :
                                        XMinusYPlus3At(k)) =>
          /\ Len(builder.model.objective.linterms) = 2
          /\ builder.model.objective.linterms[1].coef = Fin(1)
          /\ ModelVars[builder.model.objective.linterms[1].var].name = "x"
          /\ builder.model.objective.linterms[2].coef = Fin(-1)
          /\ ModelVars[builder.model.objective.linterms[2].var].name = "y"
          /\ builder.model.objective.offset = Fin(3)

\* a model was returned for a file whose objective is "x - y + 3"
C16_Witness ==
    /\ Returned
    /\ \E k \in DOMAIN rawtokens \ {1} : XMinusYPlus3At(k)
    /\ builder.model.objective.offset = Fin(3)

\* the header a word stands for by the keyword table, letters compared
\* without regard to case: its section kind and, for the objective, its sense
HeaderOf(word) ==
    LET small == <<"a", "b", "c", "d", "e", "f", "g", "h", "i", "j", "k",
                   "l", "m", "n", "o", "p", "q", "r", "s", "t", "u", "v",
                   "w", "x", "y", "z">>
        capital == <<"A", "B", "C", "D", "E", "F", "G", "H", "I", "J", "K",
                     "L", "M", "N", "O", "P", "Q", "R", "S", "T", "U", "V",
                     "W", "X", "Y", "Z">>
        same(a, b) ==
            /\ Len(a) = Len(b)
            /\ \A k \in DOMAIN a :
                  \/ a[k] = b[k]
                  \/ \E n \in DOMAIN small :
                        {a[k], b[k]} = {small[n], capital[n]}
        in(words) == \E w \in words : same(word, w)
        h(kw, os) == [keyword |-> kw, objsense |-> os]
    IN  IF in(LP_KEYWORD_MIN) THEN h("OBJ", "MIN")
        ELSE IF in(LP_KEYWORD_MAX) THEN h("OBJ", "MAX")
        ELSE IF in(LP_KEYWORD_ST) THEN h("CON", "NONE")
        ELSE IF in(LP_KEYWORD_BOUNDS) THEN h("BOUNDS", "NONE")
        ELSE IF in(LP_KEYWORD_GEN) THEN h("GEN", "NONE")
        ELSE IF in(LP_KEYWORD_BIN) THEN h("BIN", "NONE")
        ELSE IF in(LP_KEYWORD_SEMI) THEN h("SEMI", "NONE")
        ELSE IF in(LP_KEYWORD_SOS) THEN h("SOS", "NONE")
        ELSE IF in(LP_KEYWORD_END) THEN h("END", "NONE")
        ELSE h("NONE", "NONE")

\* the headers of the raw tokens from position k on: at each STRING the
\* three-token form, then the two-token form, then the one-token form
RECURSIVE Headers(_, _)
Headers(raw, k) ==
    LET str(j) == k + j \in DOMAIN raw /\ raw[k + j].type = "STR"
        three == HeaderOf(raw[k].value \o <<"-">> \o raw[k + 2].value)
        two == HeaderOf(raw[k].value \o <<" ">> \o raw[k + 1].value)
        one == HeaderOf(raw[k].value)
    IN  IF k \notin DOMAIN raw THEN <<>>
        ELSE IF /\ str(0) /\ str(2) /\ raw[k + 1].type = "MINUS"
                /\ three.keyword # "NONE"
        THEN <<three>> \o Headers(raw, k + 3)
        ELSE IF str(0) /\ str(1) /\ two.keyword # "NONE"
        THEN <<two>> \o Headers(raw, k + 2)
        ELSE IF str(0) /\ one.keyword # "NONE"
        THEN <<one>> \o Headers(raw, k + 1)
        ELSE Headers(raw, k + 1)

\* the section headers among the processed tokens, in order
ProcessedHeaders ==
    LET hs == SelectSeq(processedtokens, LAMBDA t : t.type = "SECID")
    IN  [k \in DOMAIN hs |->
            [keyword |-> hs[k].keyword, objsense |-> hs[k].objsense]]

\* the name of a token as characters
Chars(name) == (CHOOSE p \in Spelling : p[1] = name)[2]

\* C17: the section headers the classifier emits are those the keyword table
\* gives for the raw tokens, letters compared without regard to case, the
\* three-token form tried first, then the two-token form, then the one-token
\* form, each before the label and variable productions (no label or
\* variable is named by a keyword); an objective header carries its sense;
\* the sense of a returned model is that of the last objective header, and
\* minimize when there is none.
C17_Keywords ==
    Tokenized =>
       LET expected == Headers(rawtokens, 1)
           emitted == ProcessedHeaders
           objs == {k \in DOMAIN expected : expected[k].keyword = "OBJ"}
           named == {processedtokens[k] : k \in DOMAIN processedtokens}
                    \cup UNION {{sectiontokens[kw][k] :
                                    k \in DOMAIN sectiontokens[kw]} :
                                   kw \in DOMAIN sectiontokens}
       IN  /\ Len(emitted) <= Len(expected)
           /\ emitted = SubSeq(expected, 1, Len(emitted))
           /\ Stage(pc) >= Stage("splittokens") => emitted = expected
           /\ \A k \in objs : expected[k].objsense \in {"MIN", "MAX"}
           /\ \A t \in named :
                 t.type \in {"CONID", "VARID"} =>
                    HeaderOf(Chars(t.name)).keyword = "NONE"
           /\ Returned =>
                 builder.model.sense =
                    IF objs = {} THEN "MIN"
                    ELSE expected[CHOOSE k \in objs :
                                      \A q \in objs : q <= k].objsense

\* a maximize model was returned for a file with capital letters in its
\* keywords and with a two-token and a three-token header
C17_Witness ==
    /\ Returned
    /\ builder.model.sense = "MAX"
    /\ \E k \in DOMAIN rawtokens :
          /\ rawtokens[k].value = <<"S", "u", "b", "j", "e", "c", "t">>
          /\ rawtokens[k + 1].value = <<"T", "o">>
    /\ \E k \in DOMAIN rawtokens :
          /\ rawtokens[k].value = <<"S", "e", "m", "i">>
          /\ rawtokens[k + 1].type = "MINUS"
    /\ Len(ProcessedHeaders) = 6

\* readnexttoken stands at a byte 0 inside the line: the assert of its
\* case '\0' fails, and where the assert is compiled away the call returns
\* with nothing read and nothing pushed, again and again
AtNulByte ==
    /\ linebufferpos < Len(linebuffer)
    /\ At(linebuffer, linebufferpos) = "NUL"

\* C19: for every file tokenize ends, and the raw tokens it leaves hold
\* FILE_END exactly once, as the last token: while tokenize runs no FILE_END
\* has been pushed and the next call of readnexttoken can go on, and once
\* tokenize is over FILE_END is the last raw token and the only one.
C19_FileEndOnceLast ==
    /\ pc = "tokenize" =>
          /\ Positions(rawtokens, "FLEND") = {}
          /\ ~AtNulByte
    /\ pc # "tokenize" =>
          Positions(rawtokens, "FLEND") = {Len(rawtokens)}

\* the raw token is the word inf or infinity, as the number strtod makes of
\* it or as the string it is read as otherwise
InfWord(t) ==
    \/ t.type = "CONS" /\ t.cons = PInf
    \/ t.type = "STR" /\ iskeyword(t.value, LP_KEYWORD_INF)

C18_ErrorsAbort ==
    [][/\ pc # "error"
       /\ pc' # "crash"
       /\ \/ pc' = "error"
          \/ Stage(pc') = Stage(pc)
          \/ Stage(pc') = Stage(pc) + 1
       /\ pc' = "done" => pc = "end"]_vars

\* what the call of parseexpression in processconsec may leave behind from
\* this state: the abort, or the expression, cursor and builder it returns
ConOutcomes ==
    {LET r == parseexpression(ConTokens, Constraint.expr, builder, i, FALSE,
                              u)
     IN  IF r.ub /\ u = Crash THEN [ok |-> FALSE, crash |-> TRUE]
         ELSE [ok |-> r.ok, crash |-> FALSE, expr |-> r.expr, i |-> r.i,
               b |-> r.b] :
        u \in UBReads(At(ConTokens, i))}

C22_LexerProgress ==
    pc = "tokenize" =>
       LET s == readnexttoken([file |-> file, linebuffer |-> linebuffer,
                               linebufferpos |-> linebufferpos,
                               rawtokens |-> rawtokens, out |-> "return"])
           p == IF linebufferpos = Len(linebuffer) THEN 0 ELSE linebufferpos
       IN  /\ s.out = "return"
           /\ \/ Len(s.rawtokens) > Len(rawtokens)
              \/ s.linebufferpos > linebufferpos
              \/ s.file # file
           /\ (/\ p < Len(s.linebuffer)
               /\ At(s.linebuffer, p) \in {";", "\n", "NUL"}) =>
                 /\ s.linebufferpos = Len(s.linebuffer)
                 /\ s.rawtokens = rawtokens

\* the section of the most recent header before position k of t (1-based)
SectionAt(t, k) ==
    LET hs == {q \in 1..(k - 1) : t[q].type = "SECID"}
    IN  IF hs = {} THEN "NONE"
        ELSE t[CHOOSE q \in hs : \A r \in hs : r <= q].keyword

\* the tokens of t at the positions in S, in the order of t
InOrder(t, S) ==
    [n \in 1..Cardinality(S) |->
        t[CHOOSE k \in S : Cardinality({q \in S : q < k}) = n - 1]]

\* C23: after splittokens no bucket holds a section header, and the bucket
\* of each section kind is exactly the processed tokens that are no header
\* and whose most recent header is of that kind ("none" before the first
\* header), in the order of the processed tokens.
C23_Buckets ==
    [][/\ \A kw \in LpSectionKeyword :
             \A n \in DOMAIN sectiontokens'[kw] :
                sectiontokens'[kw][n].type # "SECID"
       /\ (pc = "splittokens" /\ pc' = "none") =>
             \A kw \in LpSectionKeyword :
                sectiontokens'[kw] =
                   InOrder(processedtokens,
                           {k \in DOMAIN processedtokens :
                               /\ processedtokens[k].type # "SECID"
                               /\ SectionAt(processedtokens, k) = kw})]_vars

\* splittokens has filled two buckets, one of them with two different
\* tokens
C23_Witness ==
    /\ pc = "none"
    /\ \E kw1, kw2 \in LpSectionKeyword :
          /\ kw1 # kw2
          /\ sectiontokens[kw1] # <<>>
          /\ Len(sectiontokens[kw2]) >= 2
          /\ sectiontokens[kw2][1] # sectiontokens[kw2][2]

\* the token types that the patterns of parseexpression consume
ExpressionTypes ==
    {"CONID", "CONST", "VARID", "BRKOP", "BRKCL", "SLASH", "HAT", "ASTERISK"}

\* C24: processobjsec accepts the objective bucket exactly when
\* parseexpression has consumed all of it.  An accepted bucket therefore
\* holds no COMPARISON, FREE or other token that no pattern consumes, no
\* label after its first token, and no BRACKET_CLOSE, CARET or ASTERISK
\* outside a quadratic block; an empty bucket is accepted and gives an
\* objective with no terms and offset 0.
C24_ObjectiveConsumed ==
    [][pc = "obj" =>
         LET t == sectiontokens["OBJ"]
             r == parseexpression(t, Expression, builder, 0, TRUE, "")
         IN  /\ pc' \in {"con", "error"}
             /\ pc' = "con" <=> (r.ok /\ r.i = Len(t))
             /\ pc' = "con" =>
                   /\ \A k \in DOMAIN t : t[k].type \in ExpressionTypes
                   /\ \A k \in Positions(t, "CONID") : k = 1
                   /\ \A k \in Positions(t, "BRKCL") \cup Positions(t, "HAT")
                                \cup Positions(t, "ASTERISK") : InBlock(t, k)
             /\ t = <<>> =>
                   /\ pc' = "con"
                   /\ builder'.model.objective.linterms = <<>>
                   /\ builder'.model.objective.quadterms = <<>>
                   /\ builder'.model.objective.offset = Fin(0)]_vars

\* read failed in processobjsec on an objective whose first term
\* parseexpression had parsed, a token having been left over
C24_Witness ==
    /\ pc = "error"
    /\ builder.model.objective.linterms # <<>>
    /\ LET r == parseexpression(ObjTokens, Expression, Builder, 0, TRUE, "")
       IN  r.ok /\ r.i < Len(ObjTokens)

\* the n-th smallest element of the set S of positions
NthOf(S, n) == CHOOSE k \in S : Cardinality({q \in S : q < k}) = n - 1

\* the coefficient written for the variable at position k of t: the constant
\* directly before it, unless that constant is an exponent or the divisor
\* that ends a block of the objective; 1 when none is written
Coefficient(t, k) ==
    IF /\ k - 1 \in Positions(t, "CONST")
       /\ ~(k - 2 \in Positions(t, "HAT") \cup Positions(t, "SLASH"))
    THEN t[k - 1].value
    ELSE Fin(1)

\* the expression e holds the terms written in t: one quadratic term for
\* each CARET or ASTERISK and one linear term for each variable outside the
\* blocks, in the order of t, each with the coefficient as written
TermsAsWritten(e, t) ==
    LET ops == Positions(t, "HAT") \cup Positions(t, "ASTERISK")
        lin == {k \in Positions(t, "VARID") : ~InBlock(t, k)}
    IN  /\ Len(e.quadterms) = Cardinality(ops)
        /\ \A n \in DOMAIN e.quadterms :
               LET q == NthOf(ops, n)
                   term == e.quadterms[n]
               IN  /\ term.coef = Coefficient(t, q - 1)
                   /\ ModelVars[term.var1].name = t[q - 1].name
                   /\ ModelVars[term.var2].name =
                         IF t[q].type = "HAT" THEN t[q - 1].name
                         ELSE t[q + 1].name
        /\ Len(e.linterms) = Cardinality(lin)
        /\ \A n \in DOMAIN e.linterms :
               LET k == NthOf(lin, n)
                   term == e.linterms[n]
               IN  /\ term.coef = Coefficient(t, k)
                   /\ ModelVars[term.var].name = t[k].name

\* the tokens of t before its first COMPARISON
BeforeComparison(t) ==
    LET cs == Positions(t, "COMP")
    IN  IF cs = {} THEN t
        ELSE SubSeq(t, 1, (CHOOSE c \in cs : \A d \in cs : c <= d) - 1)

\* C25: parseexpression appends one term per matched pattern in the order of
\* the tokens, without merging or dropping terms over the same variable, and
\* a quadratic term carries the coefficient as written (1 when none is
\* written, never halved): c v ^ 2 gives (c, v, v) and c v1 * v2 gives
\* (c, v1, v2).  Stated for a parsed objective and for the constraint of a
\* returned model with one constraint.
C25_TermsAsWritten ==
    /\ Stage(pc) > Stage("obj") =>
          TermsAsWritten(builder.model.objective, ObjTokens)
    /\ (Returned /\ Len(Constraints) = 1) =>
          TermsAsWritten(Constraints[1].expr, BeforeComparison(ConTokens))

\* a returned model whose objective has two linear terms over x and in its
\* block three terms x^2, one of them with coefficient 3
C25_Witness ==
    /\ Returned
    /\ \E x \in DOMAIN ModelVars :
          LET o == builder.model.objective
          IN  /\ ModelVars[x].name = "x"
              /\ Cardinality({n \in DOMAIN o.linterms :
                                 o.linterms[n].var = x}) = 2
              /\ Cardinality({n \in DOMAIN o.quadterms :
                                 /\ o.quadterms[n].var1 = x
                                 /\ o.quadterms[n].var2 = x}) = 3
              /\ \E n \in DOMAIN o.quadterms : o.quadterms[n].coef = Fin(3)

\* every section kind has at most one header in t
OncePerKind(t) ==
    \A a, b \in Positions(t, "SECID") : a # b => t[a].keyword # t[b].keyword

\* the sections of t in the order none, objective, constraints, bounds,
\* general, binary, semi, SOS, end, each with its header and its tokens
Canonical(t) ==
    LET section(kw) ==
            InOrder(t, {k \in Positions(t, "SECID") : t[k].keyword = kw})
            \o InOrder(t, {k \in DOMAIN t : /\ t[k].type # "SECID"
                                           /\ SectionAt(t, k) = kw})
    IN  section("NONE") \o section("OBJ") \o section("CON")
        \o section("BOUNDS") \o section("GEN") \o section("BIN")
        \o section("SEMI") \o section("SOS") \o section("END")

\* C26: the outcome of read does not depend on the order of the sections.
\* For processed tokens with at most one header of each kind, splittokens
\* gives the buckets and the sense it gives for the same sections in the
\* order none, objective, constraints, bounds, general, binary, semi, SOS,
\* end; and what read ends with, a model or a failure, is an outcome of
\* running the processors in that order on the buckets, starting from an
\* empty model.
C26_OrderIndependent ==
    [][/\ (pc = "splittokens" /\ OncePerKind(processedtokens)) =>
             LET c == SplitResult(Canonical(processedtokens), NoSectionTokens,
                                  Model.sense)
             IN  /\ c.ok
                 /\ pc' = "none"
                 /\ sectiontokens' = c.sect
                 /\ builder'.model.sense = c.sense
       /\ (Stage(pc) >= Stage("none") /\ pc' \in {"done", "error", "crash"}) =>
             (IF pc' = "done" THEN [out |-> "done", model |-> builder'.model]
              ELSE [out |-> pc'])
                 \in processsections(sectiontokens,
                         [Builder EXCEPT !.model.sense = builder.model.sense])
      ]_vars

\* a model was returned for processed tokens whose first section is the
\* general section and whose objective section comes after the constraints
C26_Witness ==
    /\ Returned
    /\ processedtokens # <<>>
    /\ processedtokens[1].type = "SECID"
    /\ processedtokens[1].keyword = "GEN"
    /\ \E a, b \in Positions(processedtokens, "SECID") :
          /\ a < b
          /\ processedtokens[a].keyword = "CON"
          /\ processedtokens[b].keyword = "OBJ"
    /\ Constraints # <<>>
    /\ builder.model.objective.linterms # <<>>
    /\ builder.model.sense = "MAX"

\* every step of a cursor loop that stays in the loop moves the cursor
\* forward, and no cursor passes the end of its vector
CursorProgress ==
    /\ (pc = "processtokens" /\ Tokenized) =>
          \A k \in LoopPositions(rawtokens, 0) :
              LET c == ClassifyAt(rawtokens, k)
              IN  c.adv \in 0..3 /\ k + c.adv <= Len(rawtokens)
    /\ pc = "obj" =>
          LET r == parseexpression(ObjTokens, Expression, builder, 0, TRUE, "")
          IN  r.i \in 0..Len(ObjTokens)
    /\ pc \in {"con", "con_compare"} => i \in 0..Len(ConTokens)
    /\ (pc = "con" /\ i < Len(ConTokens)) =>
          \A u \in UBReads(At(ConTokens, i)) :
              LET r == parseexpression(ConTokens, Constraint.expr, builder, i,
                                       FALSE, u)
              IN  r.i \in i..Len(ConTokens)
    /\ pc = "con_compare" =>
          LET r == ConCompare(ConTokens, con, i)
          IN  r.ok => (r.i > i /\ r.i <= Len(ConTokens))
    /\ pc = "bounds" => i \in 0..Len(BoundsTokens)
    /\ (pc = "bounds" /\ i < Len(BoundsTokens)) =>
          LET r == BoundsEntry(BoundsTokens, builder, i)
          IN  r.ok => (r.i > i /\ r.i <= Len(BoundsTokens))
    /\ pc = "sos" =>
          \A j \in 0..(Len(sectiontokens["SOS"]) - 1) :
              LET r == SosGroup(sectiontokens["SOS"],
                                [b |-> builder, ok |-> TRUE, i |-> j,
                                 sos |-> [name |-> "", type |-> 0,
                                          entries |-> <<>>]])
              IN  r.ok => (r.i > j /\ r.i <= Len(sectiontokens["SOS"]))

\* what the loop that runs at pc has left to do: the tokens after the
\* cursor, counted twice in processconsec, whose iteration takes two steps
Remaining ==
    CASE pc = "con" -> 2 * (Len(ConTokens) - i) + 1
      [] pc = "con_compare" -> 2 * (Len(ConTokens) - i)
      [] pc = "bounds" -> Len(BoundsTokens) - i
      [] OTHER -> 0

\* a step brings read to its end or to a later call, or stays in the same
\* loop with less left to do
CursorSteps ==
    Stage(pc) >= Stage("processtokens") =>
        \/ pc' \in {"done", "error", "crash"}
        \/ Stage(pc') > Stage(pc)
        \/ Stage(pc') = Stage(pc) /\ Remaining' < Remaining

\* C27: every cursor loop after the lexer terminates: in processtokens,
\* parseexpression, processconsec, processboundssec and processsossec an
\* iteration moves the index forward by at least one token without passing
\* the end of the vector, leaves the loop or raises a parse error; so from
\* the raw tokens on every step of read brings it closer to its end, by a
\* measure that cannot decrease forever.
C27_CursorLoopsTerminate ==
    []CursorProgress /\ [][CursorSteps]_vars

\* read stands before the second iteration of the loop of processboundssec,
\* which will move the cursor to the end of the bucket
C27_Witness ==
    /\ pc = "bounds"
    /\ 0 < i
    /\ i < Len(BoundsTokens)
    /\ BoundsEntry(BoundsTokens, builder, i).ok
    /\ BoundsEntry(BoundsTokens, builder, i).i = Len(BoundsTokens)

====
